---- MODULE Spec2Model ----
(***************************************************************************)
(* Model of the escape-room game: src/src/escape/room.py (views, puzzle   *)
(* objects, the arithmetic KeyPadTest) and src/src/escape/state.py (the   *)
(* GameState event loop, Game and Ending).                                 *)
(*                                                                         *)
(* Strings are sequences of one-character strings, so that length, join   *)
(* and slicing are computed as the code computes them.                     *)
(***************************************************************************)
EXTENDS Integers, Sequences, FiniteSets, TLC

VARIABLES
    phase,              \* which part of main() runs: "game", "ending", "done", "crashed"
    focus,              \* the puzzle the player types at in this run (input bound)
    active,             \* Game.active
    view,               \* Game.view
    wall_color,         \* Game._wall_color
    chest_text,         \* Images.chest.text
    mini_chest_text,    \* Images.mini_chest.text
    door_revealed,      \* Images.door.revealed
    door_light,         \* Images.door.light_switch_on
    door_text,          \* Images.door.text
    light_on,           \* Images.light_switch.on
    mini_light_on,      \* Images.mini_light_switch.on
    kp_text,            \* KeyPad._text.value
    kp_input,           \* KeyPad._opening_input
    kp_color,           \* KeyPad._text.color
    kt_active,          \* KeyPadTest._active
    question,           \* KeyPadTest._question
    special_pos,        \* KeyPadTest._special_question_position
    asked,              \* KeyPadTest._num_questions_asked
    timer,              \* period of the USEREVENT timer in ms, 0 when disabled
    ending_active,      \* Ending.active
    frame,              \* Ending._frame
    randint,            \* the values of random.randint that the latest question
                        \* of a KeyPadTest used on its own was built from
    geom                \* a position of the screen with the results of at_edge
                        \* and quadrant called on it directly

vars == <<phase, focus, active, view, wall_color,
          chest_text, mini_chest_text, door_revealed, door_light, door_text,
          light_on, mini_light_on, kp_text, kp_input, kp_color, kt_active,
          question, special_pos, asked, timer, ending_active, frame,
          randint,
                   geom>>

----------------------------------------------------------------------------
(* Bounds of the model. *)

\* the draws (answer, operand1, operator_idx) of _generate_question, numbered
\* 100 * operator_idx + 10 * answer + operand1, range over the numbers
\* 0..MaxDraw (the code: every draw); draw 0 gives the question 0+0 and
\* draw 1 the question 1+(-1)
MaxDraw == 1
\* ticks an Ending may still find in the batch in which it became inactive
MaxExtraTicks == 2
\* how many of the positions random.randint(9, 14) can return, beyond the
\* first, the special question is placed at
MaxSpecialOffset == 0
\* the screen positions passed to at_edge and quadrant directly lie on a
\* grid of MaxGrid by MaxGrid cells, refined next to the borders
MaxGrid == 16

----------------------------------------------------------------------------
(* Program constants. *)

\* room.RECT is common_state.RECT of the package kitty-common; the window it
\* describes is taken to be 1024 x 576.
RECT_W == 1024
RECT_H == 576
EDGE_MARGIN == 10
CHEST_MAX_TEXT_LENGTH == 3
KEYPAD_MAX_TEXT_LENGTH == 4
SPECIAL_MIN == 9
SPECIAL_MAX == 14
FREQ_MS == 500
WAIT_INTERVAL_MS == 1250
FIN == 8
KEYPAD_BLUE == 1

View == {"LEFT_WALL", "CEILING", "RIGHT_WALL", "FLOOR", "FRONT_WALL",
         "BACK_WALL", "DEFAULT", "LEFT_WINDOW", "FRONT_KEYPAD"}

ViewValue == [LEFT_WALL |-> 0, CEILING |-> 1, RIGHT_WALL |-> 2, FLOOR |-> 3,
              FRONT_WALL |-> 4, BACK_WALL |-> 5, DEFAULT |-> 6,
              LEFT_WINDOW |-> 7, FRONT_KEYPAD |-> 8]

\* View(n): the enum member with value n
ViewOf(n) == CHOOSE v \in View : ViewValue[v] = n

Quadrant == {"LEFT", "TOP", "RIGHT", "BOTTOM"}

QuadrantValue == [LEFT |-> 0, TOP |-> 1, RIGHT |-> 2, BOTTOM |-> 3]

\* the table with FRONT_WALL mapped to (quad.value + 2) % 4, so that TOP and
\* BOTTOM lead on to the floor and the ceiling
ROTATIONS_vertical_cycle(v, q) ==
    CASE v = "LEFT_WALL"    -> IF q = "LEFT" THEN ViewOf(ViewValue["FRONT_WALL"])
                               ELSE IF q = "RIGHT" THEN ViewOf(ViewValue["BACK_WALL"])
                               ELSE "none"
      [] v = "CEILING"      -> IF q = "TOP" THEN ViewOf(ViewValue["FRONT_WALL"])
                               ELSE IF q = "BOTTOM" THEN ViewOf(ViewValue["BACK_WALL"])
                               ELSE "none"
      [] v = "RIGHT_WALL"   -> IF q = "LEFT" THEN ViewOf(ViewValue["BACK_WALL"])
                               ELSE IF q = "RIGHT" THEN ViewOf(ViewValue["FRONT_WALL"])
                               ELSE "none"
      [] v = "FLOOR"        -> IF q = "TOP" THEN ViewOf(ViewValue["BACK_WALL"])
                               ELSE IF q = "BOTTOM" THEN ViewOf(ViewValue["FRONT_WALL"])
                               ELSE "none"
      [] v = "FRONT_WALL"   -> ViewOf((QuadrantValue[q] + 2) % 4)
      [] v = "LEFT_WINDOW"  -> "LEFT_WALL"
      [] v = "FRONT_KEYPAD" -> "FRONT_WALL"
      [] OTHER              -> "none"

\* The rotation table: ROTATIONS[v].get(q) as the View it denotes (the table
\* stores view values for the cube faces and View members for the two zoomed
\* views; View(...) maps both to the member), "none" for a missing entry.
ROTATIONS(v, q) ==
    CASE v = "LEFT_WALL"    -> IF q = "LEFT" THEN ViewOf(ViewValue["FRONT_WALL"])
                               ELSE IF q = "RIGHT" THEN ViewOf(ViewValue["BACK_WALL"])
                               ELSE "none"
      [] v = "CEILING"      -> IF q = "TOP" THEN ViewOf(ViewValue["FRONT_WALL"])
                               ELSE IF q = "BOTTOM" THEN ViewOf(ViewValue["BACK_WALL"])
                               ELSE "none"
      [] v = "RIGHT_WALL"   -> IF q = "LEFT" THEN ViewOf(ViewValue["BACK_WALL"])
                               ELSE IF q = "RIGHT" THEN ViewOf(ViewValue["FRONT_WALL"])
                               ELSE "none"
      [] v = "FLOOR"        -> IF q = "TOP" THEN ViewOf(ViewValue["BACK_WALL"])
                               ELSE IF q = "BOTTOM" THEN ViewOf(ViewValue["FRONT_WALL"])
                               ELSE "none"
      [] v = "FRONT_WALL"   -> ViewOf((2 - QuadrantValue[q]) % 4)
      [] v = "LEFT_WINDOW"  -> "LEFT_WALL"
      [] v = "FRONT_KEYPAD" -> "FRONT_WALL"
      [] OTHER              -> "none"

\* no position has been passed to at_edge or quadrant directly; at_edge
\* holds the bool returned as "True" or "False"
NoGeom == [pos |-> <<0, 0>>, at_edge |-> "none", quadrant |-> "none"]

\* at_edge with the margin excluded: x < 10 and so on
at_edge_strict(pos) ==
    LET x == pos[1]
        y == pos[2]
    IN  x < EDGE_MARGIN \/ y < EDGE_MARGIN
        \/ RECT_W - x < EDGE_MARGIN \/ RECT_H - y < EDGE_MARGIN

at_edge(pos) ==
    LET x == pos[1]
        y == pos[2]
    IN  x <= EDGE_MARGIN \/ y <= EDGE_MARGIN
        \/ RECT_W - x <= EDGE_MARGIN \/ RECT_H - y <= EDGE_MARGIN

\* quadrant without the special case of the leftmost edge, the slopes being
\* compared in the multiplied form
quadrant_without_left_case(pos) ==
    LET x == pos[1]
        y == pos[2]
        above_down_diagonal == y * RECT_W < RECT_H * x
        above_up_diagonal == (RECT_H - y) * RECT_W > RECT_H * x
    IN  IF ~above_down_diagonal /\ above_up_diagonal THEN "LEFT"
        ELSE IF above_down_diagonal /\ above_up_diagonal THEN "TOP"
        ELSE IF above_down_diagonal /\ ~above_up_diagonal THEN "RIGHT"
        ELSE "BOTTOM"

\* The slopes y/x, (h-y)/x and h/w are compared after multiplying through by
\* x*w, which is positive here.
quadrant(pos) ==
    LET x == pos[1]
        y == pos[2]
        above_down_diagonal == y * RECT_W < RECT_H * x
        above_up_diagonal == (RECT_H - y) * RECT_W > RECT_H * x
    IN  IF x = 0 THEN "LEFT"
        ELSE IF ~above_down_diagonal /\ above_up_diagonal THEN "LEFT"
        ELSE IF above_down_diagonal /\ above_up_diagonal THEN "TOP"
        ELSE IF above_down_diagonal /\ ~above_up_diagonal THEN "RIGHT"
        ELSE "BOTTOM"

\* pygame.Rect(left, top, w, h).collidepoint
RectCollide(left, top, w, h, pos) ==
    /\ left <= pos[1] /\ pos[1] < left + w
    /\ top <= pos[2] /\ pos[2] < top + h

\* BACK_WALL = Rect(w/4, h/4, w/2, h/2)
BACK_WALL_collidepoint(pos) ==
    RectCollide(RECT_W \div 4, RECT_H \div 4, RECT_W \div 2, RECT_H \div 2, pos)

\* DOOR_RECT = Rect(2w/5, h/4, w/5, 3h/4); Door._GAP is the strip at its right
DOOR_LEFT == (2 * RECT_W) \div 5
DOOR_TOP == RECT_H \div 4
DOOR_W == RECT_W \div 5
DOOR_H == (3 * RECT_H) \div 4

GAP_collidepoint(pos) ==
    RectCollide(DOOR_LEFT + DOOR_W - 5, DOOR_TOP - 2, 10, DOOR_H + 2, pos)

----------------------------------------------------------------------------
(* Strings. *)

Str1(c) == <<c>>
EMPTY == << >>
AYP == <<"A", "Y", "P">>
CODE == <<"9", "7", "1", "0">>
OK_TEXT == <<"O", "K">>
ERR_TEXT == <<"E", "R", "R">>

\* text[:-1]
DropLast(t) == IF Len(t) = 0 THEN t ELSE SubSeq(t, 1, Len(t) - 1)

DigitChar(d) ==
    CASE d = 0 -> "0" [] d = 1 -> "1" [] d = 2 -> "2" [] d = 3 -> "3"
      [] d = 4 -> "4" [] d = 5 -> "5" [] d = 6 -> "6" [] d = 7 -> "7"
      [] d = 8 -> "8" [] d = 9 -> "9"

RECURSIVE NatStr(_)
\* str(n) for an int n >= 0
NatStr(n) == IF n < 10 THEN <<DigitChar(n)>>
             ELSE NatStr(n \div 10) \o <<DigitChar(n % 10)>>

\* str(n) for an int n
IntStr(n) == IF n < 0 THEN <<"-">> \o NatStr(-n) ELSE NatStr(n)

----------------------------------------------------------------------------
(* The question generator.  Numbers are kept in tenths (an integer t      *)
(* stands for t/10), which is exact for every operand the generator can   *)
(* return: an operand with more than one digit after the point is         *)
(* rejected.                                                               *)

OPERATOR_REPR == <<"+", "*", "-", "/">>

SPECIAL_QUESTION == << <<"1">>, <<"+">>, <<"1">>, <<"3">> >>

\* The three random draws of one attempt.
Draws == [answer : 0..9, operand1 : 0..9, operator_idx : 0..3]

\* operand2 computed for '+' with the operator itself, not its inverse
Operand2Tenths_same_operator(d) ==
    CASE d.operator_idx = 0 -> 10 * (d.answer + d.operand1)
      [] d.operator_idx = 1 -> (10 * d.answer) \div d.operand1
      [] d.operator_idx = 2 -> 10 * (d.answer + d.operand1)
      [] d.operator_idx = 3 -> 10 * (d.answer * d.operand1)

\* operand2 = _OPERATORS[(operator_idx + 2) % 4](answer, operand1), times 10;
\* for '*' the inverse is a true division, which may leave a remainder.
Operand2Tenths(d) ==
    CASE d.operator_idx = 0 -> 10 * (d.answer - d.operand1)
      [] d.operator_idx = 1 -> (10 * d.answer) \div d.operand1
      [] d.operator_idx = 2 -> 10 * (d.answer + d.operand1)
      [] d.operator_idx = 3 -> 10 * (d.answer * d.operand1)

\* the conditions without the one that avoids 1 + 1
Rejected_allows_one_plus_one(d) ==
    \/ d.operand1 = 0 /\ d.operator_idx % 2 = 1
    \/ d.operator_idx = 1 /\ (10 * d.answer) % d.operand1 # 0

\* The three conditions under which _generate_question draws again.
Rejected(d) ==
    \/ d.operand1 = 0 /\ d.operator_idx % 2 = 1
    \/ d.answer = 2 /\ d.operand1 = 1 /\ d.operator_idx = 0
    \/ d.operator_idx = 1 /\ (10 * d.answer) % d.operand1 # 0

\* to_str(n) for n = t/10: an int when it has no fraction, parenthesized
\* when negative.
to_str(t) ==
    LET a == IF t < 0 THEN -t ELSE t
        s == IF a % 10 = 0
             THEN IntStr(IF t < 0 THEN -(a \div 10) ELSE a \div 10)
             ELSE (IF t < 0 THEN <<"-">> ELSE << >>)
                  \o NatStr(a \div 10) \o <<".">> \o NatStr(a % 10)
    IN  IF t < 0 THEN <<"(">> \o s \o <<")">> ELSE s

\* The 4-tuple built from an accepted draw.
BuildQuestion(d) ==
    LET o1 == 10 * d.operand1
        o2 == Operand2Tenths(d)
        first == IF d.operator_idx > 1 THEN o2 ELSE o1
        second == IF d.operator_idx > 1 THEN o1 ELSE o2
    IN  << to_str(first), <<OPERATOR_REPR[d.operator_idx + 1]>>,
           to_str(second), IntStr(d.answer) >>

\* The draws _generate_question accepts; on any other it draws again.
AcceptedDraws == { d \in Draws : ~Rejected(d) }

\* The draws are numbered: draw k
DrawOf(k) ==
    [answer |-> (k % 100) \div 10, operand1 |-> k % 10,
     operator_idx |-> k \div 100]

\* The accepted draws that the Game is run with
GameDraws ==
    { d \in { DrawOf(k) : k \in 0..MaxDraw } : d \in Draws /\ ~Rejected(d) }

\* The answers of the questions the Game is run with, as characters
AnswerChars == { DigitChar(d.answer) : d \in GameDraws }

\* _generate_question that counts the question being generated
generate_question_counting_this(num_asked, special, d) ==
    IF num_asked + 1 = special THEN SPECIAL_QUESTION ELSE BuildQuestion(d)

\* _generate_question, where d is the draw that the retry loop ends with
generate_question(num_asked, special, d) ==
    IF num_asked = special THEN SPECIAL_QUESTION ELSE BuildQuestion(d)

----------------------------------------------------------------------------
(* Events.  Every event is a record of the same shape; fields that an     *)
(* event type does not carry hold "" / 0 / <<0, 0>> / FALSE.  hit is the   *)
(* answer of the png image hotspot of the current view to collidepoint    *)
(* (mini chest, window, door, light switch): the image sizes are assets.  *)

Event(type, key, unicode, button, pos, hit) ==
    [type |-> type, key |-> key, unicode |-> unicode, button |-> button,
     pos |-> pos, hit |-> hit]

KeyEvent(key, unicode) == Event("KEYDOWN", key, unicode, 0, <<0, 0>>, FALSE)
CharEvent(c) == KeyEvent("K_char", c)
ClickEvent(button, pos, hit) == Event("MOUSEBUTTONDOWN", "", "", button, pos, hit)
TickEvent == Event("USEREVENT", "", "", 0, <<0, 0>>, FALSE)
QuitEvent == Event("QUIT", "", "", 0, <<0, 0>>, FALSE)
MotionEvent == Event("MOUSEMOTION", "", "", 0, <<0, 0>>, FALSE)

\* "ESC" stands for the character '\x1b' and "BS" for '\x08'.
SpecialKeyEvents ==
    { KeyEvent("K_BACKSPACE", "BS"), KeyEvent("K_F5", ""),
      KeyEvent("K_F11", ""), KeyEvent("K_ESCAPE", "ESC"), KeyEvent("K_F1", "") }

Digits == {"0", "1", "2", "3", "4", "5", "6", "7", "8", "9"}
Letters == {"a", "y", "p", "r", "A", "Y", "P", "R"}
\* the members of string.printable that the model types
Printable == Digits \cup Letters

isdigit(c) == c \in Digits

upper(c) ==
    CASE c = "a" -> "A" [] c = "y" -> "Y" [] c = "p" -> "P" [] c = "r" -> "R"
      [] OTHER -> c

\* The characters the player types (an input bound).  At the puzzle the run
\* focuses on, each keystroke is the next character of the secret or a wrong
\* one; once the keypad is opened, a digit that can be an answer, or 3.
CHEST_KEYS == <<"a", "y", "p">>
KEYPAD_KEYS == <<"9", "7", "1", "0">>

TypedChars(f, v, chest, keypad, opened) ==
    IF f = "chest"
    THEN IF v = "FLOOR"
         THEN {"r"} \cup (IF Len(chest) < 3 THEN {CHEST_KEYS[Len(chest) + 1]}
                          ELSE {})
         ELSE {"a"}
    ELSE IF v = "FRONT_KEYPAD"
         THEN IF opened
              THEN AnswerChars \cup {"3", "a"}
              ELSE {"3", "a"} \cup (IF Len(keypad) < 4
                                    THEN {KEYPAD_KEYS[Len(keypad) + 1]}
                                    ELSE {})
         ELSE IF v = "FLOOR" THEN {}
         ELSE {"1"}

KeyEvents(cs) == SpecialKeyEvents \cup { CharEvent(c) : c \in cs }

\* Click positions (an input bound): the corner and the four edge midpoints
\* and the centre in every view; a point inside each quadrant in the DEFAULT
\* view, the only one that reads the quadrant of a click away from the edge;
\* a point in the door gap and a point both in the gap and at the bottom
\* edge in the FRONT_WALL view, the only one that reads the gap.
EdgePositions ==
    { <<0, 0>>, <<0, 288>>, <<512, 0>>, <<1024, 288>>, <<512, 576>> }
InnerPositions == { <<128, 288>>, <<512, 72>>, <<896, 288>>, <<512, 504>> }
GapPositions == { <<612, 288>>, <<612, 570>> }

Positions(v) ==
    EdgePositions \cup { <<512, 288>> }
    \cup (IF v = "DEFAULT" THEN InnerPositions ELSE {})
    \cup (IF v = "FRONT_WALL" THEN GapPositions ELSE {})

\* The views with an image hotspot (mini chest, window, door, light switch),
\* and the positions at which the hotspot may answer the click.
HotspotViews == {"DEFAULT", "LEFT_WALL", "FRONT_WALL", "RIGHT_WALL"}

HotspotPositions(v) ==
    IF v \in HotspotViews THEN { <<512, 288>>, <<612, 570>> } ELSE {}

ClickEvents(v) ==
    { ClickEvent(1, pos, FALSE) : pos \in Positions(v) }
    \cup { ClickEvent(1, pos, TRUE) : pos \in HotspotPositions(v) }
    \cup { ClickEvent(3, <<512, 288>>, FALSE) }

AllEvents(cs, v) ==
    KeyEvents(cs) \cup ClickEvents(v) \cup {TickEvent, QuitEvent, MotionEvent}

----------------------------------------------------------------------------
(* _Question.  id stands for the identity of the Python object: the       *)
(* number of questions created before it in this test run.                *)


\* KeyPadTest._question = None
NoQuestion == [id |-> -1, value |-> << >>, state |-> "None", num_ticks |-> 0]

\* _Question(value)
NewQuestion(id, value) ==
    [id |-> id, value |-> value, state |-> "ACTIVE", num_ticks |-> 0]

\* _QuestionState.<state>.value
StateValue(st) ==
    CASE st = "OK" -> OK_TEXT [] st = "ERR" -> ERR_TEXT [] OTHER -> EMPTY

\* solve that answers a question only while it is ACTIVE
solve_while_active(q, answer) ==
    IF q.state # "ACTIVE" THEN q
    ELSE IF answer = q.value[Len(q.value)] THEN [q EXCEPT !.state = "OK"]
    ELSE [q EXCEPT !.state = "ERR"]

\* _Question.solve(answer)
solve(q, answer) ==
    IF answer = q.value[Len(q.value)] THEN [q EXCEPT !.state = "OK"]
    ELSE [q EXCEPT !.state = "ERR"]

\* tick with the comparison "> 2"
tick_late(q) ==
    [q EXCEPT !.num_ticks = q.num_ticks + 1,
              !.state = IF q.num_ticks + 1 > 2 THEN "ERR" ELSE q.state]

\* _Question.tick()
tick(q) ==
    [q EXCEPT !.num_ticks = q.num_ticks + 1,
              !.state = IF q.num_ticks + 1 > 1 THEN "ERR" ELSE q.state]

----------------------------------------------------------------------------
(* The objects of a Game as one record S, so that the methods can be      *)
(* written as functions from the state before a call to the state after   *)
(* it.  Besides the fields of the objects, S carries the outcome of the   *)
(* event being handled: consumed, redraw, and the flags raised (an        *)
(* AssertionError is propagating), used_pos and used_q (the call drew the *)
(* special position / a question from the random source).                 *)

\* send whose backspace always asks for a redraw
TextSend_backspace_redraws(text, max_len, accepted, e, c) ==
    IF ~accepted
    THEN [response |-> "None", text |-> text, assigned |-> FALSE]
    ELSE IF e.key = "K_BACKSPACE"
    THEN [response |-> "True", text |-> DropLast(text), assigned |-> TRUE]
    ELSE IF c = ""
    THEN [response |-> "None", text |-> text, assigned |-> FALSE]
    ELSE IF Len(text) >= max_len
    THEN [response |-> "False", text |-> text, assigned |-> FALSE]
    ELSE [response |-> "True", text |-> text \o <<c>>, assigned |-> TRUE]

\* _TextMixin.send, as its return value, the new text and whether the call
\* assigned to self.text.  accepted is accept_event(event), c is
\* to_char(event) ("" for None).
TextSend(text, max_len, accepted, e, c) ==
    IF ~accepted
    THEN [response |-> "None", text |-> text, assigned |-> FALSE]
    ELSE IF e.key = "K_BACKSPACE"
    THEN [response |-> IF Len(text) > 0 THEN "True" ELSE "False",
          text |-> DropLast(text), assigned |-> TRUE]
    ELSE IF c = ""
    THEN [response |-> "None", text |-> text, assigned |-> FALSE]
    ELSE IF Len(text) >= max_len
    THEN [response |-> "False", text |-> text, assigned |-> FALSE]
    ELSE [response |-> "True", text |-> text \o <<c>>, assigned |-> TRUE]

\* _ChestBase.opened
chest_opened(S) == S.chest_text = AYP

\* Chest.accept_event without the test of opened
chest_accept_event_when_opened(S, e) == e.type = "KEYDOWN"

\* Chest.accept_event
chest_accept_event(S, e) == e.type = "KEYDOWN" /\ ~chest_opened(S)

\* to_char that returns the character as typed
chest_to_char_as_typed(e) ==
    IF e.unicode = "" \/ e.unicode \notin Printable THEN ""
    ELSE e.unicode

\* Chest.to_char
chest_to_char(e) ==
    IF e.unicode = "" \/ e.unicode \notin Printable THEN ""
    ELSE upper(e.unicode)

\* KeyPad.opened
keypad_opened(S) == S.kp_input = CODE

\* accept_event that does not look at opened
keypad_accept_any_keydown(S, e) == e.type = "KEYDOWN"

\* KeyPad.accept_event
keypad_accept_event(S, e) == e.type = "KEYDOWN" /\ ~keypad_opened(S)

\* KeyPad.to_char
keypad_to_char(e) == IF isdigit(e.unicode) THEN e.unicode ELSE ""

\* set_initial_text that leaves the opening input
set_initial_text_keeps_input(S) ==
    [S EXCEPT !.kp_text = EMPTY, !.kp_color = "BLACK"]

\* KeyPad.set_initial_text
set_initial_text(S) ==
    [S EXCEPT !.kp_text = EMPTY, !.kp_color = "BLACK", !.kp_input = EMPTY]

\* the text setter without the test of opened
set_keypad_text_as_input(S, value) ==
    [S EXCEPT !.kp_text = value, !.kp_input = value]

\* KeyPad.text setter
set_keypad_text(S, value) ==
    IF keypad_opened(S) THEN [S EXCEPT !.kp_text = value]
    ELSE [S EXCEPT !.kp_text = value, !.kp_input = value]

\* an AssertionError leaves the method and everything that called it
Raise(S) == [S EXCEPT !.raised = TRUE, !.consumed = "AssertionError"]

\* "return v" of a method whose return value the caller reads; not reached
\* when an exception is propagating
Return(S, v) == IF S.raised THEN S ELSE [S EXCEPT !.ret = v]

\* Door.text = KeyPad.text
set_door_text(S) == [S EXCEPT !.door_text = S.kp_text]

\* pygame.time.set_timer(_TICK, ms)
set_timer(S, ms) == [S EXCEPT !.timer = ms]

\* KeyPadTest._init_state; rnd.pos is the value random.randint(9, 14) returns
init_state(S, rnd) ==
    [S EXCEPT !.kt_active = FALSE, !.question = NoQuestion,
              !.special_pos = rnd.pos, !.asked = 0, !.used_pos = TRUE]

\* self._question = _Question(value)
set_question(S, value) ==
    [S EXCEPT !.question = NewQuestion(S.asked, value), !.used_q = TRUE]

\* self._keypad.text = ''.join(self._question.value[:3])
show_question(S) ==
    set_keypad_text(S, S.question.value[1] \o S.question.value[2]
                       \o S.question.value[3])

\* _next_question without the increment of the counter
count_question_skipped(S) == S

\* self._num_questions_asked += 1
count_question(S) == [S EXCEPT !.asked = S.asked + 1]

\* KeyPadTest._next_question; rnd.draw is the accepted random draw
next_question(S, rnd) ==
    count_question(show_question(
        set_question(S, generate_question(S.asked, S.special_pos, rnd.draw))))

\* completed without the comparison with _SPECIAL_QUESTION
completed_any_question(S) ==
    IF S.question = NoQuestion THEN "None"
    ELSE IF S.kp_text = StateValue("OK") THEN "True" ELSE "False"

\* KeyPadTest.completed, with the value Python's "and" chain yields:
\* the falsy None when there is no question, else a bool.
completed(S) ==
    IF S.question = NoQuestion THEN "None"
    ELSE IF S.question.value # SPECIAL_QUESTION THEN "False"
    ELSE IF S.kp_text = StateValue("OK") THEN "True" ELSE "False"

Truthy(x) == x = "True"

\* KeyPadTest.start
start(S) ==
    IF S.kt_active THEN Raise(S)
    ELSE set_timer([S EXCEPT !.kt_active = TRUE, !.kp_color = "RED"], FREQ_MS)

\* stop without "self._door.text = self._keypad.text"
stop_keeps_door_text(S, rnd) ==
    IF ~S.kt_active THEN Raise(S)
    ELSE set_timer(set_initial_text(init_state(S, rnd)), 0)

\* KeyPadTest.stop
stop(S, rnd) ==
    IF ~S.kt_active THEN Raise(S)
    ELSE set_timer(set_door_text(set_initial_text(init_state(S, rnd))), 0)

\* KeyPadTest._flip_text_color
flip_text_color(S) ==
    [S EXCEPT !.kp_color = IF S.kp_color = "BLACK" THEN "RED" ELSE "BLACK"]

\* send that ticks the question whatever its state, never showing a verdict
send_tick_any_state(S, rnd) ==
    IF S.question = NoQuestion \/ S.kp_text = StateValue("OK")
    THEN next_question(S, rnd)
    ELSE [S EXCEPT !.question = tick(S.question)]

\* KeyPadTest.send, a tick on which the test goes on: the next question, the
\* verdict on the answered one, or one more tick of waiting
send_tick(S, rnd) ==
    IF S.question = NoQuestion \/ S.kp_text = StateValue("OK")
    THEN next_question(S, rnd)
    ELSE IF S.question.state # "ACTIVE"
    THEN set_keypad_text(S, StateValue(S.question.state))
    ELSE [S EXCEPT !.question = tick(S.question)]

\* KeyPadTest.send, a digit key
send_digit(S, e) ==
    IF S.question # NoQuestion
    THEN [S EXCEPT !.question = solve(S.question, <<e.unicode>>)]
    ELSE S

\* send without the "elif self.completed: return True" branch
send_active_without_completed(S, e, rnd) ==
    IF e.type = "USEREVENT"
    THEN IF S.kp_text = StateValue("ERR") THEN Return(stop(S, rnd), "True")
         ELSE Return(flip_text_color(send_tick(S, rnd)), "True")
    ELSE IF e.type = "KEYDOWN" /\ isdigit(e.unicode)
    THEN Return(send_digit(S, e), "True")
    ELSE Return(S, "False")

\* KeyPadTest.send while the test is active (the elif branches)
send_active(S, e, rnd) ==
    IF e.type = "USEREVENT"
    THEN IF S.kp_text = StateValue("ERR") THEN Return(stop(S, rnd), "True")
         ELSE IF Truthy(completed(S)) THEN Return(S, "True")
         ELSE Return(flip_text_color(send_tick(S, rnd)), "True")
    ELSE IF e.type = "KEYDOWN" /\ isdigit(e.unicode)
    THEN Return(send_digit(S, e), "True")
    ELSE Return(S, "False")

\* send without the "return True" after start(): the starting event is
\* interpreted as well
kt_send_start_falls_through(S, e, rnd) ==
    IF ~S.kt_active THEN send_active(start(S), e, rnd)
    ELSE send_active(S, e, rnd)

\* KeyPadTest.send; the return value is left in S.ret
kt_send(S, e, rnd) ==
    IF ~S.kt_active THEN Return(start(S), "True")
    ELSE send_active(S, e, rnd)

----------------------------------------------------------------------------
(* Game (state.py). *)

\* _keypressed(event, key)
keypressed(e, key) == e.type = "KEYDOWN" /\ e.key = key

\* "return True" of an event handler: the event is consumed by it, unless
\* an exception is propagating
Consume(S, handler) ==
    IF S.raised THEN S ELSE [S EXCEPT !.consumed = handler]

\* pygame.display.update()
display_update(S) == IF S.raised THEN S ELSE [S EXCEPT !.redraw = TRUE]

\* draw that leaves the keypad test alone
draw_without_stop(S, rnd) == display_update(S)

\* Game.draw: a pending stop of the keypad test, then the drawing and
\* pygame.display.update()
draw(S, rnd) ==
    display_update(IF keypad_opened(S) /\ S.view # "FRONT_KEYPAD"
                   THEN stop(S, rnd) ELSE S)

\* _handle_default_click that tests the back wall before the mini chest
handle_default_click_wall_first(S, e) ==
    LET v == IF at_edge(e.pos) THEN "FRONT_WALL"
             ELSE IF BACK_WALL_collidepoint(e.pos) THEN "BACK_WALL"
             ELSE IF e.hit THEN "FLOOR"
             ELSE ViewOf(QuadrantValue[quadrant(e.pos)])
    IN  [S EXCEPT !.view = v, !.ret = "True"]

\* Game._handle_default_click; S.ret is its return value
handle_default_click(S, e) ==
    LET v == IF at_edge(e.pos) THEN "FRONT_WALL"
             ELSE IF e.hit THEN "FLOOR"
             ELSE IF BACK_WALL_collidepoint(e.pos) THEN "BACK_WALL"
             ELSE ViewOf(QuadrantValue[quadrant(e.pos)])
    IN  [S EXCEPT !.view = v, !.ret = "True"]

\* _handle_generic_click that stays in the view when the table has no entry
handle_generic_click_no_fallback(S, e) ==
    IF ~at_edge(e.pos) THEN [S EXCEPT !.ret = "False"]
    ELSE LET r == ROTATIONS(S.view, quadrant(e.pos))
         IN  [S EXCEPT !.view = IF r = "none" THEN S.view ELSE r,
                       !.ret = "True"]

\* Game._handle_generic_click
handle_generic_click(S, e) ==
    IF ~at_edge(e.pos) THEN [S EXCEPT !.ret = "False"]
    ELSE LET q == quadrant(e.pos)
             r == ROTATIONS(S.view, q)
         IN  [S EXCEPT !.view = IF r = "none" THEN ViewOf(QuadrantValue[q])
                                 ELSE r,
                       !.ret = "True"]

\* Game._handle_left_wall_click
handle_left_wall_click(S, e) ==
    IF ~e.hit THEN [S EXCEPT !.ret = "False"]
    ELSE [S EXCEPT !.view = "LEFT_WINDOW", !.ret = "True"]

\* Door.collidepoint
door_collidepoint(S, e) ==
    IF S.door_revealed THEN e.hit ELSE GAP_collidepoint(e.pos)

\* _handle_front_wall_click that enters the keypad on the first click
handle_front_wall_click_at_once(S, e) ==
    IF ~door_collidepoint(S, e) THEN [S EXCEPT !.ret = "False"]
    ELSE [S EXCEPT !.view = "FRONT_KEYPAD", !.door_revealed = TRUE,
                   !.ret = "True"]

\* Game._handle_front_wall_click
handle_front_wall_click(S, e) ==
    IF ~door_collidepoint(S, e) THEN [S EXCEPT !.ret = "False"]
    ELSE IF S.door_revealed
    THEN [S EXCEPT !.view = "FRONT_KEYPAD", !.ret = "True"]
    ELSE [S EXCEPT !.door_revealed = TRUE, !.ret = "True"]

\* _toggle_light_switch without the assignment to door.light_switch_on
toggle_light_switch_without_door(S) ==
    LET on == ~S.light_on
    IN  [S EXCEPT !.light_on = on, !.mini_light_on = on,
                  !.wall_color = IF on THEN "GREY" ELSE "DARK_GREY_2"]

\* Game._toggle_light_switch
toggle_light_switch(S) ==
    LET on == ~S.light_on
    IN  [S EXCEPT !.light_on = on, !.mini_light_on = on,
                  !.wall_color = IF on THEN "GREY" ELSE "DARK_GREY_2",
                  !.door_light = on]

\* Game._handle_right_wall_click
handle_right_wall_click(S, e) ==
    IF ~e.hit THEN [S EXCEPT !.ret = "False"]
    ELSE [toggle_light_switch(S) EXCEPT !.ret = "True"]

\* Game.handle_click, the _handle_<view>_click of the current view
handle_view_click(S, e) ==
    CASE S.view = "DEFAULT" -> handle_default_click(S, e)
      [] S.view = "LEFT_WALL" -> handle_left_wall_click(S, e)
      [] S.view = "FRONT_WALL" -> handle_front_wall_click(S, e)
      [] S.view = "RIGHT_WALL" -> handle_right_wall_click(S, e)
      [] OTHER -> [S EXCEPT !.ret = "False"]

\* handle_click without the generic edge rule
or_generic_click_skipped(S, e) == S

\* Game.handle_click, "if not consumed: consumed = _handle_generic_click"
or_generic_click(S, e) ==
    IF S.ret = "True" THEN S ELSE handle_generic_click(S, e)

\* Game.handle_click, "if consumed: self.draw()" and "return consumed"
draw_if_consumed(S, rnd) ==
    IF S.ret = "True" THEN Consume(draw(S, rnd), "handle_click") ELSE S

\* Game.handle_click
handle_click(S, e, rnd) ==
    IF e.type # "MOUSEBUTTONDOWN" \/ e.button # 1 THEN S
    ELSE draw_if_consumed(or_generic_click(handle_view_click(S, e), e), rnd)

\* GameState.handle_fullscreen, for a Game
handle_fullscreen(S, e, rnd) ==
    IF ~keypressed(e, "K_F11") THEN S
    ELSE Consume(draw(S, rnd), "handle_fullscreen")

\* GameState.handle_quit
handle_quit(S, e) ==
    IF e.type = "QUIT" \/ keypressed(e, "K_ESCAPE")
    THEN Consume([S EXCEPT !.active = FALSE], "handle_quit")
    ELSE S

\* handle_reset that also hides the door again
handle_reset_hides_door(S, e, rnd) ==
    IF ~keypressed(e, "K_F5") THEN S
    ELSE IF S.view # "DEFAULT"
    THEN Consume(draw([S EXCEPT !.view = "DEFAULT", !.door_revealed = FALSE],
                      rnd), "handle_reset")
    ELSE Consume(S, "handle_reset")

\* Game.handle_reset
handle_reset(S, e, rnd) ==
    IF ~keypressed(e, "K_F5") THEN S
    ELSE IF S.view # "DEFAULT"
    THEN Consume(draw([S EXCEPT !.view = "DEFAULT"], rnd), "handle_reset")
    ELSE Consume(S, "handle_reset")

\* Chest.send with room for one more character
chest_send_one_more(S, e) ==
    TextSend(S.chest_text, CHEST_MAX_TEXT_LENGTH + 1,
             chest_accept_event(S, e), e, chest_to_char(e))

\* Chest.send(event)
chest_send(S, e) ==
    TextSend(S.chest_text, CHEST_MAX_TEXT_LENGTH, chest_accept_event(S, e),
             e, chest_to_char(e))

\* the assignment to Chest.text that send made, if any
chest_set_text(S, r) ==
    IF r.assigned THEN [S EXCEPT !.chest_text = r.text] ELSE S

\* Game.handle_chest_combo, the redraw after a change of the chest text
chest_redraw(S, rnd) ==
    IF chest_opened(S) THEN draw(S, rnd) ELSE [S EXCEPT !.redraw = TRUE]

\* mini_chest.text = chest.text
set_mini_chest_text(S) ==
    IF S.raised THEN S ELSE [S EXCEPT !.mini_chest_text = S.chest_text]

\* Game.handle_chest_combo after chest.send(event) answered response
chest_combo_response(S, response, rnd) ==
    IF response = "None" THEN S
    ELSE IF response = "True"
    THEN Consume(set_mini_chest_text(chest_redraw(S, rnd)),
                 "handle_chest_combo")
    ELSE Consume(S, "handle_chest_combo")

\* Game.handle_chest_combo with r the outcome of chest.send(event)
chest_combo_sent(S, r, rnd) ==
    chest_combo_response(chest_set_text(S, r), r.response, rnd)

\* Game.handle_chest_combo
handle_chest_combo(S, e, rnd) ==
    IF S.view # "FLOOR" THEN S
    ELSE chest_combo_sent(S, chest_send(S, e), rnd)

\* KeyPad.send with room for one more character
keypad_send_one_more(S, e) ==
    TextSend(S.kp_text, KEYPAD_MAX_TEXT_LENGTH + 1,
             keypad_accept_event(S, e), e, keypad_to_char(e))

\* KeyPad.send(event)
keypad_send(S, e) ==
    TextSend(S.kp_text, KEYPAD_MAX_TEXT_LENGTH, keypad_accept_event(S, e),
             e, keypad_to_char(e))

\* the assignment to KeyPad.text that send made, if any
keypad_set_text(S, r) ==
    IF r.assigned THEN set_keypad_text(S, r.text) ELSE S

\* handle_keypad_input without "door.text = keypad.text"
keypad_input_response_door_stale(S, response) ==
    IF response = "None" THEN S
    ELSE IF response = "True"
    THEN Consume(display_update(S), "handle_keypad_input")
    ELSE Consume(S, "handle_keypad_input")

\* Game.handle_keypad_input after keypad.send(event) answered response
keypad_input_response(S, response) ==
    IF response = "None" THEN S
    ELSE IF response = "True"
    THEN Consume(set_door_text(display_update(S)), "handle_keypad_input")
    ELSE Consume(S, "handle_keypad_input")

\* Game.handle_keypad_input with r the outcome of keypad.send(event)
keypad_input_sent(S, r) ==
    keypad_input_response(keypad_set_text(S, r), r.response)

\* Game.handle_keypad_input
handle_keypad_input(S, e) ==
    IF S.view # "FRONT_KEYPAD" THEN S
    ELSE keypad_input_sent(S, keypad_send(S, e))

\* handle_keypad_test without "if self._keypad_test.completed: self.active =
\* False"
keypad_test_sent_stays_active(S) ==
    IF S.raised THEN S
    ELSE [S EXCEPT !.redraw = @ \/ S.ret = "True",
                   !.consumed = IF S.ret = "True" THEN "handle_keypad_test"
                                ELSE @]

\* Game.handle_keypad_test after the send, whose return value is S.ret
keypad_test_sent(S) ==
    IF S.raised THEN S
    ELSE [S EXCEPT !.redraw = @ \/ S.ret = "True",
                   !.active = IF Truthy(completed(S)) THEN FALSE ELSE @,
                   !.consumed = IF S.ret = "True" THEN "handle_keypad_test"
                                ELSE @]

\* Game.handle_keypad_test
handle_keypad_test(S, e, rnd) ==
    IF ~keypad_opened(S) THEN S
    ELSE keypad_test_sent(kt_send(S, e, rnd))

\* Game.ending, called by main() once run() has returned (active is false
\* then): "Ending" stands for the Ending instance it constructs
ending(S) ==
    IF S.active THEN "AssertionError"
    ELSE IF Truthy(completed(S)) THEN "Ending" ELSE "None"

\* "for handle in self._event_handlers: consumed = handle(event); if consumed:
\* break": each handler is tried unless an earlier one consumed the event.
try_click(S, e, rnd) ==
    IF S.consumed # "none" THEN S ELSE handle_click(S, e, rnd)

try_fullscreen(S, e, rnd) ==
    IF S.consumed # "none" THEN S ELSE handle_fullscreen(S, e, rnd)

try_keypad_input(S, e) ==
    IF S.consumed # "none" THEN S ELSE handle_keypad_input(S, e)

try_keypad_test(S, e, rnd) ==
    IF S.consumed # "none" THEN S ELSE handle_keypad_test(S, e, rnd)

try_quit(S, e) ==
    IF S.consumed # "none" THEN S ELSE handle_quit(S, e)

try_reset(S, e, rnd) ==
    IF S.consumed # "none" THEN S ELSE handle_reset(S, e, rnd)

\* The state as an event starts to be handled.
Fresh(S) ==
    [S EXCEPT !.consumed = "none", !.redraw = FALSE, !.raised = FALSE,
              !.ret = "None", !.used_pos = FALSE, !.used_q = FALSE]

\* One pass of the inner loop of GameState.run over the handlers of a Game,
\* in the order of dir(): handle_chest_combo, handle_click,
\* handle_fullscreen, handle_keypad_input, handle_keypad_test, handle_quit,
\* handle_reset.
Dispatch(S, e, rnd) ==
    try_reset(
        try_quit(
            try_keypad_test(
                try_keypad_input(
                    try_fullscreen(
                        try_click(handle_chest_combo(Fresh(S), e, rnd),
                                  e, rnd),
                        e, rnd),
                    e),
                e, rnd),
            e),
        e, rnd)

----------------------------------------------------------------------------
(* The state machine. *)

\* The Game's objects as a record.
Cur ==
    [consumed |-> "none", redraw |-> FALSE, active |-> active,
     view |-> view, wall_color |-> wall_color, chest_text |-> chest_text,
     mini_chest_text |-> mini_chest_text, door_revealed |-> door_revealed,
     door_light |-> door_light, door_text |-> door_text, light_on |-> light_on,
     mini_light_on |-> mini_light_on, kp_text |-> kp_text,
     kp_input |-> kp_input, kp_color |-> kp_color, kt_active |-> kt_active,
     question |-> question, special_pos |-> special_pos, asked |-> asked,
     timer |-> timer,
     raised |-> FALSE, ret |-> "None", used_pos |-> FALSE, used_q |-> FALSE]

SpecialPositions ==
    { p \in SPECIAL_MIN..SPECIAL_MAX : p <= SPECIAL_MIN + MaxSpecialOffset }

NoRnd == [pos |-> SPECIAL_MIN, draw |-> [answer |-> 0, operand1 |-> 0,
                                         operator_idx |-> 0]]

\* The outcomes of handling e, one for each value the random source can
\* return, given the outcome r for one of them: only a call that reaches
\* _init_state or _next_question draws any.
ResultsLike(r, e) ==
    IF ~r.used_pos /\ ~r.used_q THEN {r}
    ELSE { Dispatch(Cur, e, rnd) :
             rnd \in [pos : IF r.used_pos THEN SpecialPositions
                            ELSE {NoRnd.pos},
                      draw : IF r.used_q THEN GameDraws
                             ELSE {NoRnd.draw}] }

Results(e) == ResultsLike(Dispatch(Cur, e, NoRnd), e)

\* The variables after an event handled with result r.
Apply(r) ==
    /\ active' = r.active
    /\ view' = r.view
    /\ wall_color' = r.wall_color
    /\ chest_text' = r.chest_text
    /\ mini_chest_text' = r.mini_chest_text
    /\ door_revealed' = r.door_revealed
    /\ door_light' = r.door_light
    /\ door_text' = r.door_text
    /\ light_on' = r.light_on
    /\ mini_light_on' = r.mini_light_on
    /\ kp_text' = r.kp_text
    /\ kp_input' = r.kp_input
    /\ kp_color' = r.kp_color
    /\ kt_active' = r.kt_active
    /\ question' = r.question
    /\ special_pos' = r.special_pos
    /\ asked' = r.asked
    /\ timer' = r.timer

\* The events that can come next.
Events == AllEvents(TypedChars(focus, view, chest_text, kp_text,
                               keypad_opened(Cur)), view)

\* GameState.run for the Game: the loop takes events while active is true,
\* and once active is false it still handles the events left in the batch
\* that pygame.event.get() returned, however many those are.
Running == phase = "game"

\* The event e is handled and handler h consumes it ("none": no handler
\* does; "AssertionError": an assertion fails and the program ends).
Handle(e, h) ==
    /\ Running
    /\ \E r \in Results(e) :
         /\ r.consumed = h
         /\ Apply(r)
         /\ phase' = IF r.raised THEN "crashed" ELSE phase
    /\ UNCHANGED <<focus, ending_active, frame, randint,
                   geom>>

\* One action for each handler of the Game: an event that this handler
\* consumes.  The leading conjuncts repeat the handler's own first test.
HandleChestCombo ==
    \E e \in Events : view = "FLOOR" /\ Handle(e, "handle_chest_combo")

HandleClick ==
    \E e \in Events : e.type = "MOUSEBUTTONDOWN" /\ Handle(e, "handle_click")

HandleFullscreen ==
    \E e \in Events : keypressed(e, "K_F11") /\ Handle(e, "handle_fullscreen")

HandleKeypadInput ==
    \E e \in Events : view = "FRONT_KEYPAD" /\ Handle(e, "handle_keypad_input")

HandleKeypadTest ==
    \E e \in Events : keypad_opened(Cur) /\ Handle(e, "handle_keypad_test")

HandleQuit ==
    \E e \in Events : (e.type = "QUIT" \/ keypressed(e, "K_ESCAPE"))
                      /\ Handle(e, "handle_quit")

HandleReset ==
    \E e \in Events : keypressed(e, "K_F5") /\ Handle(e, "handle_reset")

\* an event that no handler consumes
Unconsumed == \E e \in Events : Handle(e, "none")

\* an event during which the assertion of KeyPadTest.stop fails (stop is
\* called by Game.draw and KeyPadTest.send, both only for an opened keypad)
AssertionFails ==
    \E e \in Events : keypad_opened(Cur) /\ Handle(e, "AssertionError")

\* The batch is exhausted with active false: run() returns after cleanup (a
\* no-op for Game) and main() calls game.ending(); an Ending is constructed
\* (frame 0, active, timer set) when the test was completed.
RunExit ==
    /\ phase = "game" /\ ~active
    /\ IF ending(Cur) = "Ending"
       THEN /\ phase' = "ending"
            /\ ending_active' = TRUE
            /\ frame' = 0
            /\ timer' = WAIT_INTERVAL_MS
       ELSE /\ phase' = "done"
            /\ UNCHANGED <<ending_active, frame, timer>>
    /\ UNCHANGED <<focus, active, view, wall_color, chest_text,
                   mini_chest_text, door_revealed, door_light, door_text,
                   light_on, mini_light_on, kp_text, kp_input, kp_color,
                   kt_active, question, special_pos, asked, randint,
                   geom>>

\* GameState.run for the Ending
EndingRunning == phase = "ending"

\* what every handler of the Ending leaves alone
EndingFrame ==
    /\ UNCHANGED <<phase, focus, active, view, wall_color, chest_text,
                   mini_chest_text, door_revealed, door_light, door_text,
                   light_on, mini_light_on, kp_text, kp_input, kt_active,
                   question, special_pos, asked, timer, randint,
                   geom>>

\* GameState.handle_fullscreen, for the Ending
EndingFullscreen ==
    /\ EndingRunning
    /\ EndingFrame
    /\ UNCHANGED <<ending_active, frame, kp_color>>

\* GameState.handle_quit, for the Ending
EndingQuit ==
    /\ EndingRunning
    /\ ending_active' = FALSE
    /\ EndingFrame
    /\ UNCHANGED <<frame, kp_color>>

\* handle_tick that compares the frame with FIN before incrementing it
EndingTick_compares_first ==
    /\ EndingRunning
    /\ frame < FIN + MaxExtraTicks
    /\ frame' = frame + 1
    /\ EndingFrame
    /\ IF frame = FIN
       THEN /\ ending_active' = FALSE
            /\ UNCHANGED kp_color
       ELSE /\ kp_color' = IF frame' = KEYPAD_BLUE THEN "BLUE" ELSE kp_color
            /\ UNCHANGED ending_active

\* Ending.handle_tick
EndingTick ==
    /\ EndingRunning
    /\ frame < FIN + MaxExtraTicks
    /\ frame' = frame + 1
    /\ EndingFrame
    /\ IF frame' = FIN
       THEN /\ ending_active' = FALSE
            /\ UNCHANGED kp_color
       ELSE /\ kp_color' = IF frame' = KEYPAD_BLUE THEN "BLUE" ELSE kp_color
            /\ UNCHANGED ending_active

\* an event no handler of the Ending consumes (a click, a key, a motion)
EndingUnconsumed ==
    /\ EndingRunning
    /\ EndingFrame
    /\ UNCHANGED <<ending_active, frame, kp_color>>

\* Ending.cleanup after its run loop
EndingExit ==
    /\ phase = "ending" /\ ~ending_active
    /\ phase' = "done"
    /\ timer' = 0
    /\ UNCHANGED <<focus, active, view, wall_color,
                   chest_text, mini_chest_text, door_revealed, door_light,
                   door_text, light_on, mini_light_on, kp_text, kp_input,
                   kp_color, kt_active, question, special_pos, asked,
                   ending_active, frame, randint,
                   geom>>

\* Game.__init__: the objects as constructed, the special position drawn.
Init ==
    /\ phase = "game"
    /\ focus \in {"chest", "keypad"}
    /\ active = TRUE
    /\ view = "DEFAULT"
    /\ wall_color = "GREY"
    /\ chest_text = EMPTY
    /\ mini_chest_text = EMPTY
    /\ door_revealed = FALSE
    /\ door_light = TRUE
    /\ door_text = EMPTY
    /\ light_on = TRUE
    /\ mini_light_on = TRUE
    /\ kp_text = EMPTY
    /\ kp_input = EMPTY
    /\ kp_color = "BLACK"
    /\ kt_active = FALSE
    /\ question = NoQuestion
    /\ special_pos \in SpecialPositions
    /\ asked = 0
    /\ timer = 0
    /\ ending_active = FALSE
    /\ frame = 0
    /\ randint = NoRnd.draw
    /\ geom = NoGeom

Next ==
    \/ HandleChestCombo
    \/ HandleClick
    \/ HandleFullscreen
    \/ HandleKeypadInput
    \/ HandleKeypadTest
    \/ HandleQuit
    \/ HandleReset
    \/ Unconsumed
    \/ AssertionFails
    \/ RunExit
    \/ EndingFullscreen
    \/ EndingQuit
    \/ EndingTick
    \/ EndingUnconsumed
    \/ EndingExit

Spec == Init /\ [][Next]_vars

----------------------------------------------------------------------------
(* The properties checked. *)

\* KeyPadTest.completed is truthy in the current state
Completed == Truthy(completed(Cur))

\* C1: Game.active is false at the end of the event in which
\* KeyPadTest.completed becomes true, and when run() has returned (the game
\* is inactive) Game.ending() gives an Ending exactly when completed holds at
\* that moment, and None otherwise.
C1_ActiveFalseOnCompletion ==
    [][/\ (Running /\ ~Completed /\ Completed') => ~active'
       /\ RunExit => /\ ~active
                     /\ (phase' = "ending") <=> Completed
                     /\ (phase' = "done") <=> ~Completed]_vars

\* C1 witness: an Ending has just been constructed for a completed test
C1_Witness ==
    phase = "ending" /\ frame = 0 /\ ending_active /\ Completed /\ ~active

\* C2 (as claimed): once completed is true it stays true under every later
\* event of the Game.  An edge click or F5 left in the batch after the
\* completing tick refutes it.
C2_CompletedLatches == [][Completed => Completed']_vars

\* C3: completed is truthy iff there is a current question, it is the
\* special question and the keypad shows 'OK'; with no question it is falsy.
C3_CompletedIff ==
    /\ Completed <=> /\ question # NoQuestion
                     /\ question.value = << <<"1">>, <<"+">>, <<"1">>, <<"3">> >>
                     /\ kp_text = <<"O", "K">>
    /\ question = NoQuestion => ~Completed

\* C3 witness: the three conditions hold together, and completed is truthy
C3_Witness ==
    /\ question # NoQuestion
    /\ question.value[4] = <<"3">>
    /\ kp_text = <<"O", "K">>
    /\ Completed

\* S is as KeyPadTest.stop (with KeyPad.set_initial_text) leaves things
StoppedIn(S) ==
    /\ ~S.kt_active
    /\ S.question = NoQuestion
    /\ S.asked = 0
    /\ S.kp_text = << >>
    /\ S.kp_color = "BLACK"
    /\ S.kp_input = << >>
    /\ S.door_text = << >>

Stopped == StoppedIn(Cur)

\* C4: while the keypad is opened, a write of a non-empty text to it changes
\* the displayed text only (the opening input stays '9710'), and opened
\* becomes false only in a step in which the active test is stopped, which
\* calls set_initial_text.
C4_OpenedPersists ==
    [][keypad_opened(Cur) =>
         /\ (kp_text' # kp_text /\ kp_text' # << >>)
              => (keypad_opened(Cur)' /\ kp_input' = kp_input)
         /\ ~keypad_opened(Cur)' => (kt_active /\ Stopped')
         /\ keypad_opened(Cur)' => kp_input' = kp_input]_vars

\* C4 witness: the opened keypad shows 'ERR', written by the test
C4_Witness ==
    /\ keypad_opened(Cur)
    /\ kp_input = <<"9", "7", "1", "0">>
    /\ kp_text = <<"E", "R", "R">>

\* C5 (as claimed): an event that changes the view away from FRONT_KEYPAD
\* while the keypad is opened leaves the test inactive without a question,
\* the keypad not opened, and the keypad and door texts empty.
C5_LeavingKeypadResets ==
    [][(view = "FRONT_KEYPAD" /\ view' # "FRONT_KEYPAD" /\ keypad_opened(Cur))
         => /\ ~kt_active'
            /\ question' = NoQuestion
            /\ ~keypad_opened(Cur)'
            /\ kp_text' = << >>
            /\ door_text' = << >>]_vars

\* events of every type, for a direct call of KeyPadTest.send
SendEvents == AllEvents({"0", "3", "a"}, view)

\* KeyPadTest.send(e) in the current state only starts the test
SendStarts(e) ==
    kt_send(Cur, e, NoRnd) = [Cur EXCEPT !.kt_active = TRUE,
                                         !.kp_color = "RED",
                                         !.timer = 500,
                                         !.ret = "True"]

\* KeyPadTest.send(e) in the current state leaves a question
SendAsks(e) == kt_send(Cur, e, NoRnd).question # NoQuestion

\* C6: while the test is inactive there is no question, and send, for an
\* event of any type, only activates the test (text colour and timer set)
\* and returns True: no question, nothing else interpreted.  With the test
\* started and no question yet, a send generates one exactly when the event
\* is a tick.
C6_FirstSendStarts ==
    /\ ~kt_active => /\ question = NoQuestion
                     /\ \A e \in SendEvents : SendStarts(e)
    /\ (kt_active /\ question = NoQuestion)
         => \A e \in SendEvents : SendAsks(e) <=> e.type = "USEREVENT"

\* C6 witness: the test just started by a first send, no question yet
C6_Witness ==
    /\ kt_active
    /\ question = NoQuestion
    /\ asked = 0
    /\ kp_color = "RED"
    /\ kp_text = <<"9", "7", "1", "0">>

\* the text that displays question q: its first three tokens
Display(q) == q.value[1] \o q.value[2] \o q.value[3]

\* a non-special question is current and the test is active
RegularQuestion ==
    /\ kt_active
    /\ question # NoQuestion
    /\ question.value # << <<"1">>, <<"+">>, <<"1">>, <<"3">> >>

\* The state after KeyPadTest.send of the digit key d in the current state
SendDigit(d) == kt_send(Cur, CharEvent(d), NoRnd)

\* The outcomes of a tick event handled by the Game in the current state,
\* one for each value the random source can return
TickOutcomes == Results(TickEvent)

\* C7: with a non-special question Q displayed, a digit equal to Q's answer
\* leaves Q answered correctly; if that is how Q stands at the next tick,
\* the tick shows 'OK' with Q still current and the test active, and the
\* tick after it replaces Q by a new question object, shows its first three
\* tokens and adds one to the questions-asked counter.
C7_CorrectAnswerThenNext ==
    Running =>
      /\ \A d \in {"0", "3"} :
           (RegularQuestion /\ kp_text = Display(question)
              /\ <<d>> = question.value[4])
             => SendDigit(d).question.state = "OK"
      /\ (RegularQuestion /\ kp_text = Display(question)
            /\ question.state = "OK")
           => \A r \in TickOutcomes :
                /\ r.consumed = "handle_keypad_test"
                /\ r.kp_text = <<"O", "K">>
                /\ r.kt_active
                /\ r.question = question
      /\ (RegularQuestion /\ kp_text = <<"O", "K">>)
           => \A r \in TickOutcomes :
                /\ r.consumed = "handle_keypad_test"
                /\ r.question # NoQuestion
                /\ r.question.id # question.id
                /\ r.question.state = "ACTIVE"
                /\ r.kp_text = Display(r.question)
                /\ r.asked = asked + 1
                /\ r.kt_active

\* C7 witness: a second question is displayed, so a first one was answered
\* correctly, 'OK' was shown and the following tick asked this one
C7_Witness ==
    /\ kt_active
    /\ question # NoQuestion
    /\ asked = 2
    /\ question.id = 1
    /\ kp_text = Display(question)

\* C8: with a question displayed, a digit other than its answer leaves it
\* answered wrongly; if that is how it stands at the next tick, the tick
\* shows 'ERR', and the tick after it stops the test: inactive, no question,
\* counter 0, keypad text empty, black and not opened, door text empty.
C8_WrongAnswerThenStop ==
    Running =>
      /\ \A d \in {"0", "3"} :
           (kt_active /\ question # NoQuestion
              /\ kp_text = Display(question) /\ <<d>> # question.value[4])
             => SendDigit(d).question.state = "ERR"
      /\ (kt_active /\ question # NoQuestion
            /\ kp_text = Display(question) /\ question.state = "ERR")
           => \A r \in TickOutcomes :
                /\ r.consumed = "handle_keypad_test"
                /\ r.kp_text = <<"E", "R", "R">>
                /\ r.kt_active
      /\ (kt_active /\ kp_text = <<"E", "R", "R">>)
           => \A r \in TickOutcomes :
                /\ r.consumed = "handle_keypad_test"
                /\ StoppedIn(r)
                /\ ~keypad_opened(r)

\* C8 witness: 'ERR' is shown for a question answered wrongly before its
\* second tick
C8_Witness ==
    /\ kt_active
    /\ question # NoQuestion
    /\ question.state = "ERR"
    /\ question.num_ticks < 2
    /\ kp_text = <<"E", "R", "R">>

\* C9 (as claimed): on the tick at which an unanswered question's state
\* becomes ERR, the keypad text becomes 'ERR' as well.
C9_ErrShownOnTimeoutTick ==
    (Running /\ kt_active /\ question # NoQuestion
       /\ question.state = "ACTIVE")
      => \A r \in TickOutcomes :
           (r.question # NoQuestion /\ r.question.id = question.id
              /\ r.question.state = "ERR")
             => r.kp_text = <<"E", "R", "R">>

\* C9 (amended): on the tick at which an unanswered question's tick counter
\* first exceeds one, its state becomes ERR and the keypad still displays
\* the question; the next tick displays 'ERR', and the tick after that stops
\* the test.
C9_ErrShownOneTickLater ==
    Running =>
      /\ (kt_active /\ question # NoQuestion /\ question.state = "ACTIVE"
            /\ kp_text = Display(question) /\ question.num_ticks = 1)
           => \A r \in TickOutcomes :
                /\ r.consumed = "handle_keypad_test"
                /\ r.question.state = "ERR"
                /\ r.question.num_ticks = 2
                /\ r.kp_text = kp_text
                /\ r.kt_active
      /\ (kt_active /\ question # NoQuestion /\ question.state = "ERR"
            /\ question.num_ticks = 2 /\ kp_text = Display(question))
           => \A r \in TickOutcomes :
                /\ r.consumed = "handle_keypad_test"
                /\ r.kp_text = <<"E", "R", "R">>
                /\ r.kt_active
                /\ r.question = question
      /\ (kt_active /\ question # NoQuestion /\ question.num_ticks = 2
            /\ kp_text = <<"E", "R", "R">>)
           => \A r \in TickOutcomes :
                r.consumed = "handle_keypad_test" /\ ~r.kt_active

\* C9 witness: a question timed out (two ticks, state ERR) and is still
\* displayed
C9_Witness ==
    /\ kt_active
    /\ question # NoQuestion
    /\ question.state = "ERR"
    /\ question.num_ticks = 2
    /\ kp_text = Display(question)

\* C10: a fresh question is ACTIVE after one tick() and ERR after two, three
\* and four; and a step changes the tick counter of the current question
\* only when its state is ACTIVE, by one, leaving it ACTIVE at one tick and
\* ERR at two.
C10_TickOnlyWhileActive ==
    [][/\ (question # NoQuestion /\ question.state = "ACTIVE"
             /\ question.num_ticks = 0)
            => /\ tick(question).state = "ACTIVE"
               /\ tick(tick(question)).state = "ERR"
               /\ tick(tick(tick(question))).state = "ERR"
               /\ tick(tick(tick(tick(question)))).state = "ERR"
       /\ (question # NoQuestion /\ question' # NoQuestion
             /\ question'.id = question.id
             /\ question'.num_ticks # question.num_ticks)
            => /\ question.state = "ACTIVE"
               /\ question'.num_ticks = question.num_ticks + 1
               /\ question'.state = IF question'.num_ticks = 1 THEN "ACTIVE"
                                    ELSE "ERR"]_vars

\* C10 witness: an unanswered question after its first tick, still ACTIVE
C10_Witness ==
    /\ kt_active
    /\ question # NoQuestion
    /\ question.state = "ACTIVE"
    /\ question.num_ticks = 1


\* The digit keys sent to a question by the properties: the answers the
\* bounded generator can ask for, the special question's answer, and one
\* more
AnswerDigits == {"0", "1", "3", "7"}

\* C11: while the test is active with a question, a digit key handled by the
\* Game is consumed by handle_keypad_test and leaves the question answered
\* OK when the digit is its answer character and ERR otherwise, whatever
\* its state and tick count were; the question's value and tick count, the
\* keypad text, the questions-asked counter and the activity flag are
\* unchanged.
C11_DigitSetsState ==
    (Running /\ kt_active /\ question # NoQuestion)
      => \A d \in AnswerDigits :
           /\ SendDigit(d).ret = "True"
           /\ \A r \in Results(CharEvent(d)) :
                /\ r.consumed = "handle_keypad_test"
                /\ r.question =
                     [question EXCEPT !.state =
                        IF <<d>> = question.value[4] THEN "OK" ELSE "ERR"]
                /\ r.kp_text = kp_text
                /\ r.asked = asked
                /\ r.kt_active

\* C11 witness: a question that timed out (state ERR at its second tick)
\* stands answered OK, so a digit replaced the ERR state
C11_Witness ==
    /\ kt_active
    /\ question # NoQuestion
    /\ question.num_ticks = 2
    /\ question.state = "OK"


\* C12 (as claimed): the special question is the k-th question of its run,
\* counting from 1, where k is the run's special position: once it is the
\* current question, k questions have been asked.
C12_SpecialIsKthQuestion ==
    (kt_active /\ question # NoQuestion /\ question.value = SPECIAL_QUESTION)
      => asked = special_pos

\* C12 (amended): the run's special position k is in 9..14, and the current
\* question is the special question exactly when it is question k + 1 of
\* the run, counting from 1: it is generated when k questions have been
\* asked before it.  No question follows it in the run.
C12_SpecialIsQuestionAfterK ==
    /\ special_pos \in SPECIAL_MIN..SPECIAL_MAX
    /\ asked <= special_pos + 1
    /\ question # NoQuestion
         => /\ question.id = asked - 1
            /\ question.value = SPECIAL_QUESTION <=> asked = special_pos + 1

\* C12 witness: the special question has just been issued
C12_Witness ==
    /\ kt_active
    /\ question # NoQuestion
    /\ question.value = SPECIAL_QUESTION
    /\ question.state = "ACTIVE"
    /\ question.num_ticks = 0
    /\ asked = special_pos + 1


----------------------------------------------------------------------------
(* Chest and KeyPad on their own: the objects are constructed and events  *)
(* are sent to them directly, without a Game, as room_test does.  focus   *)
(* says which of the two objects the events are sent to.                  *)

\* The characters typed at a buffer (an input bound): the letters of the
\* chest's secret in lower case, two other letters, one of them in upper
\* case, and the digits of the keypad's code.
BufferChars == {"a", "y", "p", "r", "P", "9", "7", "1", "0"}

\* The events sent to a buffer: the key-downs of these characters and of
\* backspace, escape and the function keys, and events that are not
\* key-downs.
BufferEvents ==
    KeyEvents(BufferChars)
    \cup { TickEvent, QuitEvent, MotionEvent,
           ClickEvent(1, <<512, 288>>, FALSE) }

\* The return value of Chest.send(e) in the current state
ChestResponse(e) == chest_send(Cur, e).response

\* The chest text after Chest.send(e) in the current state
ChestAfter(e) == chest_set_text(Cur, chest_send(Cur, e)).chest_text

\* The return value of KeyPad.send(e) in the current state
KeyPadResponse(e) == keypad_send(Cur, e).response

\* The keypad after KeyPad.send(e) in the current state
KeyPadAfter(e) == keypad_set_text(Cur, keypad_send(Cur, e))

\* Chest.send(e)
ChestSend ==
    /\ phase = "room"
    /\ focus = "chest"
    /\ \E e \in BufferEvents : chest_text' = ChestAfter(e)
    /\ UNCHANGED <<phase, focus, active, view, wall_color, mini_chest_text,
                   door_revealed, door_light, door_text, light_on,
                   mini_light_on, kp_text, kp_input, kp_color, kt_active,
                   question, special_pos, asked, timer, ending_active,
                   frame, randint,
                   geom>>

\* KeyPad.send(e)
KeyPadSend ==
    /\ phase = "room"
    /\ focus = "keypad"
    /\ \E e \in BufferEvents :
         /\ kp_text' = KeyPadAfter(e).kp_text
         /\ kp_input' = KeyPadAfter(e).kp_input
    /\ UNCHANGED <<phase, focus, active, view, wall_color, chest_text,
                   mini_chest_text, door_revealed, door_light, door_text,
                   light_on, mini_light_on, kp_color, kt_active, question,
                   special_pos, asked, timer, ending_active, frame,
                   randint,
                   geom>>

\* room.Images(screen) and KeyPadTest(keypad, door) constructed
SendInit ==
    /\ phase = "room"
    /\ focus \in {"chest", "keypad"}
    /\ active = TRUE
    /\ view = "DEFAULT"
    /\ wall_color = "GREY"
    /\ chest_text = EMPTY
    /\ mini_chest_text = EMPTY
    /\ door_revealed = FALSE
    /\ door_light = TRUE
    /\ door_text = EMPTY
    /\ light_on = TRUE
    /\ mini_light_on = TRUE
    /\ kp_text = EMPTY
    /\ kp_input = EMPTY
    /\ kp_color = "BLACK"
    /\ kt_active = FALSE
    /\ question = NoQuestion
    /\ special_pos \in SpecialPositions
    /\ asked = 0
    /\ timer = 0
    /\ ending_active = FALSE
    /\ frame = 0
    /\ randint = NoRnd.draw
    /\ geom = NoGeom

SendNext == ChestSend \/ KeyPadSend

SendSpec == SendInit /\ [][SendNext]_vars

\* C13: for Chest.send and KeyPad.send, on every event in every buffer
\* state, the result is True exactly when the text after the call differs
\* from the text before it, and then the text after is the text before
\* with one character appended or with its last character removed.
C13_TrueIffTextChanged ==
    \A e \in BufferEvents :
      /\ ChestResponse(e) = "True" <=> ChestAfter(e) # chest_text
      /\ ChestAfter(e) # chest_text
           => \/ /\ Len(ChestAfter(e)) = Len(chest_text) + 1
                 /\ SubSeq(ChestAfter(e), 1, Len(chest_text)) = chest_text
              \/ /\ chest_text # EMPTY
                 /\ ChestAfter(e) = DropLast(chest_text)
      /\ KeyPadResponse(e) = "True" <=> KeyPadAfter(e).kp_text # kp_text
      /\ KeyPadAfter(e).kp_text # kp_text
           => \/ /\ Len(KeyPadAfter(e).kp_text) = Len(kp_text) + 1
                 /\ SubSeq(KeyPadAfter(e).kp_text, 1, Len(kp_text)) = kp_text
              \/ /\ kp_text # EMPTY
                 /\ KeyPadAfter(e).kp_text = DropLast(kp_text)

\* C13 witness: a chest buffer with two characters, where a character is
\* appended with result True and backspace removes one with result True
C13_Witness ==
    /\ phase = "room"
    /\ Len(chest_text) = 2
    /\ ChestResponse(CharEvent("p")) = "True"
    /\ ChestAfter(CharEvent("p")) = chest_text \o <<"P">>
    /\ ChestResponse(KeyEvent("K_BACKSPACE", "BS")) = "True"


\* e is a key-down of backspace
IsBackspace(e) == e.type = "KEYDOWN" /\ e.key = "K_BACKSPACE"

\* e is a key-down, not of backspace, whose character the chest accepts
ChestAcceptable(e) ==
    e.type = "KEYDOWN" /\ e.key # "K_BACKSPACE" /\ e.unicode \in Printable

\* e is a key-down, not of backspace, whose character the keypad accepts
KeyPadAcceptable(e) ==
    e.type = "KEYDOWN" /\ e.key # "K_BACKSPACE" /\ e.unicode \in Digits

\* C14: for a chest or keypad that is not opened, send returns False exactly
\* for a backspace on an empty buffer and for an acceptable character when
\* the buffer holds its maximum number of characters, and in both cases the
\* buffer after the call is the buffer before it.
C14_FalseExactlyWhenNoop ==
    \A e \in BufferEvents :
      /\ ~chest_opened(Cur)
           => /\ ChestResponse(e) = "False"
                   <=> \/ IsBackspace(e) /\ chest_text = EMPTY
                       \/ /\ ChestAcceptable(e)
                          /\ Len(chest_text) = CHEST_MAX_TEXT_LENGTH
              /\ ChestResponse(e) = "False" => ChestAfter(e) = chest_text
      /\ ~keypad_opened(Cur)
           => /\ KeyPadResponse(e) = "False"
                   <=> \/ IsBackspace(e) /\ kp_text = EMPTY
                       \/ /\ KeyPadAcceptable(e)
                          /\ Len(kp_text) = KEYPAD_MAX_TEXT_LENGTH
              /\ KeyPadResponse(e) = "False"
                   => /\ KeyPadAfter(e).kp_text = kp_text
                      /\ KeyPadAfter(e).kp_input = kp_input

\* C14 witness: a keypad holding four digits that are not the code, where a
\* further digit gets the result False
C14_Witness ==
    /\ phase = "room"
    /\ Len(kp_text) = KEYPAD_MAX_TEXT_LENGTH
    /\ ~keypad_opened(Cur)
    /\ KeyPadResponse(CharEvent("9")) = "False"


\* C15: send returns None and leaves the buffer as it was whenever the
\* event is not a key-down, whenever the puzzle is opened, and whenever a
\* key other than backspace carries no acceptable character: for the chest
\* an empty or a non-printable one, for the keypad one that is not a digit.
C15_NoneLeavesBuffer ==
    \A e \in BufferEvents :
      /\ (\/ e.type # "KEYDOWN"
          \/ chest_opened(Cur)
          \/ /\ e.type = "KEYDOWN" /\ e.key # "K_BACKSPACE"
             /\ (e.unicode = "" \/ e.unicode \notin Printable))
           => /\ ChestResponse(e) = "None"
              /\ ChestAfter(e) = chest_text
      /\ (\/ e.type # "KEYDOWN"
          \/ keypad_opened(Cur)
          \/ /\ e.type = "KEYDOWN" /\ e.key # "K_BACKSPACE"
             /\ e.unicode \notin Digits)
           => /\ KeyPadResponse(e) = "None"
              /\ KeyPadAfter(e).kp_text = kp_text
              /\ KeyPadAfter(e).kp_input = kp_input

\* C15 witness: the keypad is opened, and backspace and a digit both get
\* the result None
C15_Witness ==
    /\ phase = "room"
    /\ keypad_opened(Cur)
    /\ KeyPadResponse(KeyEvent("K_BACKSPACE", "BS")) = "None"
    /\ KeyPadResponse(CharEvent("9")) = "None"


\* C16: in every state reached from the empty buffers by send() calls, the
\* chest text has at most 3 characters and the keypad's opening input has
\* at most 4.
C16_BuffersBounded ==
    /\ Len(chest_text) <= 3
    /\ Len(kp_input) <= 4

\* C16 witness: a full chest that is not opened, to which one more
\* character is sent without effect
C16_Witness ==
    /\ phase = "room"
    /\ Len(chest_text) = 3
    /\ ~chest_opened(Cur)
    /\ ChestAfter(CharEvent("r")) = chest_text


\* C17 (as claimed): in every reachable state of the Game the keypad's
\* visible text has at most 4 characters.
C17_KeypadTextBounded == Len(kp_text) <= KEYPAD_MAX_TEXT_LENGTH

\* C17 (amended): the keypad's opening input never has more than 4
\* characters; while the keypad is not opened its visible text is the
\* opening input, so it has at most 4 characters; once it is opened the
\* visible text is the code, 'OK', 'ERR' or the first three tokens of the
\* current question, and only such a question string is ever longer than 4
\* characters.
C17_TextBoundedUntilOpened ==
    /\ Len(kp_input) <= KEYPAD_MAX_TEXT_LENGTH
    /\ ~keypad_opened(Cur) => kp_text = kp_input
    /\ keypad_opened(Cur)
         => \/ kp_text \in {CODE, OK_TEXT, ERR_TEXT}
            \/ question # NoQuestion /\ kp_text = Display(question)
    /\ Len(kp_text) > KEYPAD_MAX_TEXT_LENGTH
         => /\ keypad_opened(Cur)
            /\ question # NoQuestion
            /\ kp_text = Display(question)

\* C17 witness: the opened keypad shows a question of more than 4
\* characters
C17_Witness ==
    /\ Running
    /\ keypad_opened(Cur)
    /\ kt_active
    /\ question # NoQuestion
    /\ kp_text = Display(question)
    /\ Len(kp_text) > KEYPAD_MAX_TEXT_LENGTH


\* The printable characters typed at the chest by the properties
ChestChars == {"a", "y", "p", "r", "P", "1"}

C19_ChestStoresAsTyped ==
    /\ chest_text = EMPTY => ChestAfter(CharEvent("r")) = <<"r">>
    /\ \A c \in BufferChars :
         (~chest_opened(Cur) /\ Len(chest_text) < CHEST_MAX_TEXT_LENGTH)
           => ChestAfter(CharEvent(c)) = chest_text \o <<c>>


\* The left clicks of the DEFAULT view
DefaultClicks == { e \in ClickEvents("DEFAULT") : e.button = 1 }

\* The face with the index of quadrant q
FaceOfQuadrant(q) ==
    CASE q = "LEFT" -> "LEFT_WALL" [] q = "TOP" -> "CEILING"
      [] q = "RIGHT" -> "RIGHT_WALL" [] q = "BOTTOM" -> "FLOOR"

\* C20: in the DEFAULT view every left click is consumed by handle_click and
\* the view becomes FRONT_WALL for a click at the screen edge; otherwise
\* FLOOR for a click on the mini chest; otherwise BACK_WALL for a click
\* inside the back-wall rectangle; otherwise the face of the click's
\* quadrant.  The view after the click is never DEFAULT, LEFT_WINDOW or
\* FRONT_KEYPAD.
C20_DefaultClickFace ==
    (Running /\ view = "DEFAULT")
      => \A e \in DefaultClicks :
           \A r \in Results(e) :
             /\ r.consumed = "handle_click"
             /\ r.view =
                  IF at_edge(e.pos) THEN "FRONT_WALL"
                  ELSE IF e.hit THEN "FLOOR"
                  ELSE IF BACK_WALL_collidepoint(e.pos) THEN "BACK_WALL"
                  ELSE FaceOfQuadrant(quadrant(e.pos))
             /\ r.view \notin {"DEFAULT", "LEFT_WINDOW", "FRONT_KEYPAD"}

\* C20 witness: the DEFAULT view, where a click on the mini chest inside the
\* back-wall rectangle gives FLOOR, the same click off the mini chest gives
\* BACK_WALL, and a click in the left quadrant gives LEFT_WALL
C20_Witness ==
    /\ Running
    /\ view = "DEFAULT"
    /\ \A r \in Results(ClickEvent(1, <<512, 288>>, TRUE)) : r.view = "FLOOR"
    /\ \A r \in Results(ClickEvent(1, <<512, 288>>, FALSE)) :
         r.view = "BACK_WALL"
    /\ \A r \in Results(ClickEvent(1, <<128, 288>>, FALSE)) :
         r.view = "LEFT_WALL"
    /\ door_revealed


----------------------------------------------------------------------------
(* Views, clicks, reset and quit. *)

\* e is a left click
LeftClick(e) == e.type = "MOUSEBUTTONDOWN" /\ e.button = 1

\* C21: in the FRONT_WALL view a left click on the door hotspot is consumed
\* by handle_click; while the door is not revealed it sets revealed and
\* leaves the view FRONT_WALL, and while the door is revealed it changes the
\* view to FRONT_KEYPAD.  No other event handled in a view other than
\* FRONT_KEYPAD leaves the view FRONT_KEYPAD.
C21_DoorClickRevealsThenEnters ==
    Running =>
      /\ view = "FRONT_WALL"
           => \A e \in ClickEvents("FRONT_WALL") :
                (LeftClick(e) /\ door_collidepoint(Cur, e))
                  => \A r \in Results(e) :
                       /\ r.consumed = "handle_click"
                       /\ r.door_revealed
                       /\ r.view = IF door_revealed THEN "FRONT_KEYPAD"
                                   ELSE "FRONT_WALL"
      /\ view # "FRONT_KEYPAD"
           => \A e \in SendEvents :
                \A r \in Results(e) :
                  r.view = "FRONT_KEYPAD"
                    => /\ view = "FRONT_WALL"
                       /\ door_revealed
                       /\ LeftClick(e)
                       /\ door_collidepoint(Cur, e)

\* C21 witness: the keypad view has just been entered: the door is revealed
\* and nothing has been typed
C21_Witness ==
    /\ Running
    /\ view = "FRONT_KEYPAD"
    /\ door_revealed
    /\ kp_text = EMPTY
    /\ ~kt_active


CubeFaces ==
    {"LEFT_WALL", "CEILING", "RIGHT_WALL", "FLOOR", "FRONT_WALL", "BACK_WALL"}

Walls == {"LEFT_WALL", "FRONT_WALL", "RIGHT_WALL", "BACK_WALL"}

\* The midpoint of the screen edge of quadrant q
EdgePoint(q) ==
    CASE q = "LEFT" -> <<0, RECT_H \div 2>>
      [] q = "TOP" -> <<RECT_W \div 2, 0>>
      [] q = "RIGHT" -> <<RECT_W, RECT_H \div 2>>
      [] q = "BOTTOM" -> <<RECT_W \div 2, RECT_H>>

\* Game._handle_generic_click for a click at the edge of quadrant q
GenericRotate(S, q) ==
    handle_generic_click(S, ClickEvent(1, EdgePoint(q), FALSE))

\* The generic edge rotation applied four times with the same quadrant
Rotate4(S, q) ==
    GenericRotate(GenericRotate(GenericRotate(GenericRotate(S, q), q), q), q)

\* C22 (as claimed): from every cube face and for every quadrant, four
\* generic edge rotations with that quadrant return to the starting face.
C22_FourFoldClosed ==
    view \in CubeFaces
      => \A q \in Quadrant : Rotate4(Cur, q).view = view

\* C22 (amended): four generic edge rotations with the same quadrant return
\* to the starting face exactly in these cases: from the four walls with
\* LEFT or RIGHT, from FRONT_WALL with any quadrant, from CEILING with TOP
\* and from FLOOR with BOTTOM.  In every other case they end on another
\* face.
C22_FourFoldClosedCases ==
    view \in CubeFaces
      => \A q \in Quadrant :
           /\ at_edge(EdgePoint(q)) /\ quadrant(EdgePoint(q)) = q
           /\ Rotate4(Cur, q).view = view
                <=> \/ view \in Walls /\ q \in {"LEFT", "RIGHT"}
                    \/ view = "FRONT_WALL"
                    \/ view = "CEILING" /\ q = "TOP"
                    \/ view = "FLOOR" /\ q = "BOTTOM"

\* C22 witness: the CEILING view, from which four rotations return with TOP
\* and end at BACK_WALL with LEFT
C22_Witness ==
    /\ Running
    /\ view = "CEILING"
    /\ Rotate4(Cur, "TOP").view = "CEILING"
    /\ Rotate4(Cur, "LEFT").view = "BACK_WALL"


\* A left click at the edge midpoint of quadrant q, off the view's hotspot,
\* handled by the Game in state S
EdgeClick(S, q) == Dispatch(S, ClickEvent(1, EdgePoint(q), FALSE), NoRnd)

\* The states after two, three and four such clicks
EdgeClick2(S, q) == EdgeClick(EdgeClick(S, q), q)
EdgeClick3(S, q) == EdgeClick(EdgeClick2(S, q), q)
EdgeClick4(S, q) == EdgeClick(EdgeClick3(S, q), q)

\* C23: from each of the four walls, four consecutive edge clicks in the
\* LEFT quadrant, and likewise in the RIGHT quadrant, are each consumed by
\* handle_click, visit all four walls and return to the starting wall.
C23_HorizontalCycle ==
    (Running /\ view \in Walls)
      => \A q \in {"LEFT", "RIGHT"} :
           /\ EdgeClick(Cur, q).consumed = "handle_click"
           /\ EdgeClick2(Cur, q).consumed = "handle_click"
           /\ EdgeClick3(Cur, q).consumed = "handle_click"
           /\ EdgeClick4(Cur, q).consumed = "handle_click"
           /\ { view, EdgeClick(Cur, q).view, EdgeClick2(Cur, q).view,
                EdgeClick3(Cur, q).view } = Walls
           /\ EdgeClick4(Cur, q).view = view

\* C23 witness: the BACK_WALL view, from which LEFT leads to LEFT_WALL and
\* four LEFT clicks lead back
C23_Witness ==
    /\ Running
    /\ view = "BACK_WALL"
    /\ EdgeClick(Cur, "LEFT").view = "LEFT_WALL"
    /\ EdgeClick2(Cur, "LEFT").view = "FRONT_WALL"
    /\ EdgeClick4(Cur, "LEFT").view = "BACK_WALL"


\* The face whose index equals the value of quadrant q
FaceOfValue(q) ==
    CASE q = "LEFT" -> "LEFT_WALL"
      [] q = "TOP" -> "CEILING"
      [] q = "RIGHT" -> "RIGHT_WALL"
      [] q = "BOTTOM" -> "FLOOR"

\* The view after a generic edge click in view v with quadrant q, entry by
\* entry: the stored entry of v for q, and the face of q where v has none
RotationTarget(v, q) ==
    CASE v = "LEFT_WALL" /\ q = "LEFT" -> "FRONT_WALL"
      [] v = "LEFT_WALL" /\ q = "RIGHT" -> "BACK_WALL"
      [] v = "CEILING" /\ q = "TOP" -> "FRONT_WALL"
      [] v = "CEILING" /\ q = "BOTTOM" -> "BACK_WALL"
      [] v = "RIGHT_WALL" /\ q = "LEFT" -> "BACK_WALL"
      [] v = "RIGHT_WALL" /\ q = "RIGHT" -> "FRONT_WALL"
      [] v = "FLOOR" /\ q = "TOP" -> "BACK_WALL"
      [] v = "FLOOR" /\ q = "BOTTOM" -> "FRONT_WALL"
      [] v = "FRONT_WALL" /\ q = "LEFT" -> "RIGHT_WALL"
      [] v = "FRONT_WALL" /\ q = "TOP" -> "CEILING"
      [] v = "FRONT_WALL" /\ q = "RIGHT" -> "LEFT_WALL"
      [] v = "FRONT_WALL" /\ q = "BOTTOM" -> "FLOOR"
      [] v = "LEFT_WINDOW" -> "LEFT_WALL"
      [] v = "FRONT_KEYPAD" -> "FRONT_WALL"
      [] OTHER -> FaceOfValue(q)

\* A left click at the screen edge that the view's own handler declines
GenericEdgeClick(e) ==
    /\ LeftClick(e)
    /\ at_edge(e.pos)
    /\ handle_view_click(Cur, e).ret = "False"

\* C24: a generic edge click in view v with quadrant q leads to the table's
\* entry for (v, q) and, where there is none, to the face whose index is q's
\* value; from LEFT_WINDOW it leads to LEFT_WALL and from FRONT_KEYPAD to
\* FRONT_WALL for every quadrant; the new view is always one of the six
\* faces, never DEFAULT, LEFT_WINDOW or FRONT_KEYPAD.  The click is taken by
\* handle_click, whose draw of the new view may still fail the assertion of
\* KeyPadTest.stop.
C24_GenericEdgeTarget ==
    Running
      => /\ \A q \in Quadrant :
              /\ GenericRotate(Cur, q).ret = "True"
              /\ GenericRotate(Cur, q).view = RotationTarget(view, q)
              /\ GenericRotate(Cur, q).view \in CubeFaces
         /\ \A e \in ClickEvents(view) :
              GenericEdgeClick(e)
                => \A r \in Results(e) :
                     /\ r.consumed \in {"handle_click", "AssertionError"}
                     /\ r.view = RotationTarget(view, quadrant(e.pos))
                     /\ r.view \in CubeFaces

\* C24 witness: the LEFT_WINDOW view, in which a click at the top edge is a
\* generic edge click and leads to LEFT_WALL
C24_Witness ==
    /\ Running
    /\ view = "LEFT_WINDOW"
    /\ \E e \in ClickEvents(view) :
         /\ GenericEdgeClick(e)
         /\ quadrant(e.pos) = "TOP"
         /\ \A r \in Results(e) :
              r.view = "LEFT_WALL" /\ r.consumed = "handle_click"

\* The reset key and the quit inputs
ResetKey == KeyEvent("K_F5", "")

QuitInputs == {QuitEvent, KeyEvent("K_ESCAPE", "ESC")}

\* C25: the reset key handled in a state whose view is not DEFAULT leaves
\* the view DEFAULT; handled in the DEFAULT view it is consumed by
\* handle_reset without a redraw and without any change of state.
C25_ResetLeadsToDefault ==
    Running
      => \A r \in Results(ResetKey) :
           IF view # "DEFAULT"
           THEN r.view = "DEFAULT"
           ELSE r = [Cur EXCEPT !.consumed = "handle_reset", !.ret = r.ret]

\* C26: a QUIT event or an Escape key-down handled by the running Game is
\* consumed by handle_quit and sets active to false.
C26_QuitDeactivates ==
    Running
      => \A e \in QuitInputs :
           \A r \in Results(e) :
             r.consumed = "handle_quit" /\ ~r.active


\* A left click on the light-switch hotspot in the RIGHT_WALL view
SwitchClick(e) == view = "RIGHT_WALL" /\ LeftClick(e) /\ e.hit

\* C27: the light switch, the mini light switch and the door's light flag
\* are equal and the wall colour is GREY exactly when the light is on; an
\* event changes the light exactly when it is a left click on the
\* light-switch hotspot in the RIGHT_WALL view, which toggles the light and
\* leaves the view unchanged.
C27_LightConsistent ==
    /\ light_on = mini_light_on
    /\ light_on = door_light
    /\ wall_color \in {"GREY", "DARK_GREY_2"}
    /\ (wall_color = "GREY") <=> light_on
    /\ Running
         => \A e \in Events :
              \A r \in Results(e) :
                /\ SwitchClick(e)
                     => /\ r.light_on = ~light_on
                        /\ r.view = view
                        /\ r.consumed = "handle_click"
                /\ ~SwitchClick(e)
                     => /\ r.light_on = light_on
                        /\ r.wall_color = wall_color

\* C27 witness: the light switched off, seen from the RIGHT_WALL view
C27_Witness ==
    /\ Running
    /\ view = "RIGHT_WALL"
    /\ ~light_on /\ ~mini_light_on /\ ~door_light
    /\ wall_color = "DARK_GREY_2"


-----------------------------------------------------------------------------
(* The Ending. *)

\* C28: the Ending starts active with frame counter 0; every tick increases
\* the counter by exactly 1 and no other event changes it, so it never
\* decreases; the Ending is active only below FIN, is inactive once the
\* counter is FIN, and goes from active to inactive only on the tick that
\* makes the counter FIN or on a quit, which leaves the counter alone.
C28_FrameCountsTicks ==
    [][ /\ (phase = "game" /\ phase' = "ending")
             => frame' = 0 /\ ending_active'
        /\ (phase = "ending" /\ phase' = "ending")
             => /\ EndingTick => frame' = frame + 1
                /\ ~EndingTick => frame' = frame
                /\ frame' >= frame
                /\ ending_active' => frame' < FIN
                /\ frame' = FIN => ~ending_active'
                /\ (ending_active /\ ~ending_active')
                     => \/ frame' = FIN /\ frame = FIN - 1
                        \/ EndingQuit /\ frame' = frame
                /\ (ending_active /\ ending_active' /\ EndingTick)
                     => frame' < FIN
                /\ ~ending_active => ~ending_active'
      ]_vars

\* C28 witness: the Ending inactive after its eighth tick
C28_Witness ==
    phase = "ending" /\ frame = FIN /\ ~ending_active


-----------------------------------------------------------------------------
(* The question generator on its own: a KeyPadTest constructed on a fresh  *)
(* KeyPad and Door whose _next_question is called directly, with the       *)
(* values of random.randint chosen freely.                                 *)

\* The test after _next_question() in the current state, d being the draw
\* that _generate_question ends with
NextQuestionAfter(d) == next_question(Cur, [pos |-> NoRnd.pos, draw |-> d])

\* The draws _generate_question can end with in the current state: none is
\* made for the special question
EndingDraws == IF asked = special_pos THEN {randint} ELSE AcceptedDraws

\* KeyPadTest._next_question(), up to and including the special question
NextQuestion ==
    /\ phase = "generator"
    /\ asked <= special_pos
    /\ \E d \in EndingDraws :
         \E r \in {NextQuestionAfter(d)} :
           /\ question' = r.question
           /\ kp_text' = r.kp_text
           /\ kp_input' = r.kp_input
           /\ asked' = r.asked
           /\ randint' = d
    /\ UNCHANGED <<phase, focus, active, view, wall_color, chest_text,
                   mini_chest_text, door_revealed, door_light, door_text,
                   light_on, mini_light_on, kp_color, kt_active, special_pos,
                   timer, ending_active, frame, geom>>

\* room.Images(screen) and KeyPadTest(keypad, door) constructed
GenInit ==
    /\ phase = "generator"
    /\ focus = "keypad"
    /\ active = TRUE
    /\ view = "DEFAULT"
    /\ wall_color = "GREY"
    /\ chest_text = EMPTY
    /\ mini_chest_text = EMPTY
    /\ door_revealed = FALSE
    /\ door_light = TRUE
    /\ door_text = EMPTY
    /\ light_on = TRUE
    /\ mini_light_on = TRUE
    /\ kp_text = EMPTY
    /\ kp_input = EMPTY
    /\ kp_color = "BLACK"
    /\ kt_active = FALSE
    /\ question = NoQuestion
    /\ special_pos \in SpecialPositions
    /\ asked = 0
    /\ timer = 0
    /\ ending_active = FALSE
    /\ frame = 0
    /\ randint = NoRnd.draw
    /\ geom = NoGeom

GenNext == NextQuestion

GenSpec == GenInit /\ [][GenNext]_vars

\* The number a displayed operand stands for, in tenths: the parentheses of
\* a negative number and the sign are taken off, and the digits before and
\* after the decimal point are read.
DigitValue(c) == CHOOSE n \in 0..9 : DigitChar(n) = c

RECURSIVE NatValue(_)
NatValue(s) ==
    IF s = << >> THEN 0
    ELSE 10 * NatValue(DropLast(s)) + DigitValue(s[Len(s)])

Unparenthesized(s) ==
    IF Len(s) >= 2 /\ s[1] = "(" /\ s[Len(s)] = ")"
    THEN SubSeq(s, 2, Len(s) - 1) ELSE s

Unsigned(s) == IF s # << >> /\ s[1] = "-" THEN Tail(s) ELSE s

PointAt(s) == { i \in 1..Len(s) : s[i] = "." }

\* the digits after the decimal point
Decimals(s) ==
    IF PointAt(s) = {} THEN 0
    ELSE Len(s) - (CHOOSE i \in PointAt(s) : TRUE)

MagnitudeTenths(s) ==
    IF PointAt(s) = {} THEN 10 * NatValue(s)
    ELSE 10 * NatValue(SubSeq(s, 1, (CHOOSE i \in PointAt(s) : TRUE) - 1))
         + NatValue(SubSeq(s, (CHOOSE i \in PointAt(s) : TRUE) + 1, Len(s)))

DisplayedTenths(s) ==
    IF Unparenthesized(s)[1] = "-"
    THEN - MagnitudeTenths(Unsigned(Unparenthesized(s)))
    ELSE MagnitudeTenths(Unparenthesized(s))

\* The latest question of the test is a regular one
RegularReturned == question # NoQuestion /\ question.id # special_pos

\* a op b = ans for operands in tenths
ExactTenths(a, op, b, ans) ==
    CASE op = "+" -> a + b = 10 * ans
      [] op = "*" -> a * b = 100 * ans
      [] op = "-" -> a - b = 10 * ans
      [] op = "/" -> b # 0 /\ 10 * a = ans * b * 10
      [] OTHER -> FALSE

\* the operands the claim names for the drawn digit d and the answer, in
\* tenths; for '*' the second operand is ans/d
NamedOperands(a, op, b, ans, d) ==
    CASE op = "+" -> a = 10 * d /\ b = 10 * (ans - d)
      [] op = "*" -> a = 10 * d /\ b * d = 10 * ans
      [] op = "-" -> a = 10 * (ans + d) /\ b = 10 * d
      [] op = "/" -> a = 10 * ans * d /\ b = 10 * d
      [] OTHER -> FALSE

\* C29: every regular question the generator returns is arithmetically
\* exact: its answer is the drawn answer digit in 0..9, its operator the
\* drawn one, its displayed operands a and b satisfy a op b = ans and are
\* (d, ans-d) for '+', (d, ans/d) for '*', (ans+d, d) for '-' and
\* (ans*d, d) for '/', d being the drawn digit, and each operand has at
\* most one digit after the decimal point.
C29_QuestionExact ==
    RegularReturned
      => /\ Len(question.value) = 4
         /\ randint.answer \in 0..9
         /\ question.value[4] = <<DigitChar(randint.answer)>>
         /\ question.value[2] = <<OPERATOR_REPR[randint.operator_idx + 1]>>
         /\ ExactTenths(DisplayedTenths(question.value[1]),
                        question.value[2][1],
                        DisplayedTenths(question.value[3]),
                        randint.answer)
         /\ NamedOperands(DisplayedTenths(question.value[1]),
                          question.value[2][1],
                          DisplayedTenths(question.value[3]),
                          randint.answer, randint.operand1)
         /\ Decimals(Unparenthesized(question.value[1])) <= 1
         /\ Decimals(Unparenthesized(question.value[3])) <= 1

\* C29 witness: the regular question 5 * 0.2 = 1 returned
C29_Witness ==
    /\ RegularReturned
    /\ question.value = << <<"5">>, <<"*">>, <<"0", ".", "2">>, <<"1">> >>
    /\ kp_text = <<"5", "*", "0", ".", "2">>


\* the question 1 + 1 = 2
ONE_PLUS_ONE == << <<"1">>, <<"+">>, <<"1">>, <<"2">> >>

\* C30: no question is returned from a draw with first operand 0 and the
\* operator * or /, so that no returned question divides by zero; the
\* question 1+1=2 is never returned; and the keypad displays '1+1' only for
\* the special question.
C30_NoZeroNoOnePlusOne ==
    /\ RegularReturned
         => /\ ~(randint.operand1 = 0 /\ randint.operator_idx \in {1, 3})
            /\ question.value[2] = <<"/">>
                 => DisplayedTenths(question.value[3]) # 0
            /\ question.value # ONE_PLUS_ONE
            /\ kp_text # <<"1", "+", "1">>
    /\ (question # NoQuestion /\ kp_text = <<"1", "+", "1">>)
         => /\ question.value = SPECIAL_QUESTION
            /\ question.id = special_pos

\* C30 witness: after regular questions, among them one with first operand
\* 0, the special question is displayed as '1+1'
C30_Witness ==
    /\ phase = "generator"
    /\ randint.operand1 = 0
    /\ question.value = SPECIAL_QUESTION
    /\ kp_text = <<"1", "+", "1">>


-----------------------------------------------------------------------------
(* at_edge and quadrant on their own: the functions of room.py called      *)
(* directly on a position of the screen rectangle.                         *)

\* The coordinates of the grid: MaxGrid equal steps, the middle, and the
\* values around the margin of at_edge at both ends
GridCoordinates(size) ==
    { (i * size) \div MaxGrid : i \in 0..MaxGrid }
    \cup { size \div 2 }
    \cup { 1, EDGE_MARGIN, EDGE_MARGIN + 1 }
    \cup { size - EDGE_MARGIN - 1, size - EDGE_MARGIN, size - 1 }

GridPositions ==
    { <<x, y>> : x \in GridCoordinates(RECT_W), y \in GridCoordinates(RECT_H) }

\* at_edge(pos)
AtEdge ==
    /\ phase = "geometry"
    /\ geom' = [geom EXCEPT !.at_edge = IF at_edge(geom.pos) THEN "True"
                                     ELSE "False"]
    /\ UNCHANGED <<phase, focus, active, view, wall_color, chest_text,
                   mini_chest_text, door_revealed, door_light, door_text,
                   light_on, mini_light_on, kp_text, kp_input, kp_color,
                   kt_active, question, special_pos, asked, timer,
                   ending_active, frame, randint>>

\* quadrant(pos)
QuadrantOf ==
    /\ phase = "geometry"
    /\ geom' = [geom EXCEPT !.quadrant = quadrant(geom.pos)]
    /\ UNCHANGED <<phase, focus, active, view, wall_color, chest_text,
                   mini_chest_text, door_revealed, door_light, door_text,
                   light_on, mini_light_on, kp_text, kp_input, kp_color,
                   kt_active, question, special_pos, asked, timer,
                   ending_active, frame, randint>>

\* a position of the screen rectangle is chosen, nothing called on it yet
GeomInit ==
    /\ phase = "geometry"
    /\ focus = "keypad"
    /\ active = TRUE
    /\ view = "DEFAULT"
    /\ wall_color = "GREY"
    /\ chest_text = EMPTY
    /\ mini_chest_text = EMPTY
    /\ door_revealed = FALSE
    /\ door_light = TRUE
    /\ door_text = EMPTY
    /\ light_on = TRUE
    /\ mini_light_on = TRUE
    /\ kp_text = EMPTY
    /\ kp_input = EMPTY
    /\ kp_color = "BLACK"
    /\ kt_active = FALSE
    /\ question = NoQuestion
    /\ special_pos = SPECIAL_MIN
    /\ asked = 0
    /\ timer = 0
    /\ ending_active = FALSE
    /\ frame = 0
    /\ randint = NoRnd.draw
    /\ geom \in { [NoGeom EXCEPT !.pos = p] : p \in GridPositions }

GeomNext == AtEdge \/ QuadrantOf

GeomSpec == GeomInit /\ [][GeomNext]_vars

\* Twice the signed area of the triangle (0,0), (w,h), pos: positive below
\* the diagonal from the top left to the bottom right corner
BelowDownDiagonal(pos) == RECT_W * pos[2] - RECT_H * pos[1]

\* The same for the diagonal from the bottom left to the top right corner:
\* positive below it
BelowUpDiagonal(pos) == RECT_W * (pos[2] - RECT_H) + RECT_H * pos[1]

\* pos lies strictly inside the open triangle of quadrant q that the two
\* diagonals cut out of the screen
InTriangle(pos, q) ==
    /\ 0 < pos[1] /\ pos[1] < RECT_W /\ 0 < pos[2] /\ pos[2] < RECT_H
    /\ CASE q = "LEFT" -> BelowDownDiagonal(pos) > 0 /\ BelowUpDiagonal(pos) < 0
         [] q = "TOP" -> BelowDownDiagonal(pos) < 0 /\ BelowUpDiagonal(pos) < 0
         [] q = "RIGHT" -> BelowDownDiagonal(pos) < 0 /\ BelowUpDiagonal(pos) > 0
         [] q = "BOTTOM" -> BelowDownDiagonal(pos) > 0 /\ BelowUpDiagonal(pos) > 0

\* C31: quadrant returns a quadrant for every position of the screen
\* rectangle; it returns LEFT for every position with x = 0, maps the
\* midpoints of the left, top, right and bottom edges to LEFT, TOP, RIGHT
\* and BOTTOM, and maps every position strictly inside one of the four open
\* triangles cut by the diagonals to the quadrant of that triangle.
C31_QuadrantTotal ==
    geom.quadrant # "none"
      => /\ geom.quadrant \in Quadrant
         /\ geom.pos[1] = 0 => geom.quadrant = "LEFT"
         /\ geom.pos = <<0, RECT_H \div 2>> => geom.quadrant = "LEFT"
         /\ geom.pos = <<RECT_W \div 2, 0>> => geom.quadrant = "TOP"
         /\ geom.pos = <<RECT_W, RECT_H \div 2>> => geom.quadrant = "RIGHT"
         /\ geom.pos = <<RECT_W \div 2, RECT_H>> => geom.quadrant = "BOTTOM"
         /\ \A q \in Quadrant :
              InTriangle(geom.pos, q) => geom.quadrant = q

\* C31 witness: quadrant called on a position inside the bottom triangle
C31_Witness ==
    /\ phase = "geometry"
    /\ InTriangle(geom.pos, "BOTTOM")
    /\ geom.pos[1] # RECT_W \div 2
    /\ geom.quadrant = "BOTTOM"


\* pos lies on one of the four borders of the screen
OnBorder(pos) ==
    pos[1] \in {0, RECT_W} \/ pos[2] \in {0, RECT_H}

\* C32: at_edge is true exactly for the positions within 10 pixels of at
\* least one of the four borders of the screen; in particular it is true
\* on each border and false at the centre of the screen.
C32_AtEdgeMargin ==
    geom.at_edge # "none"
      => /\ geom.at_edge \in {"True", "False"}
         /\ geom.at_edge = "True"
              <=> \E d \in 0..EDGE_MARGIN :
                    \/ geom.pos[1] = d
                    \/ geom.pos[2] = d
                    \/ geom.pos[1] = RECT_W - d
                    \/ geom.pos[2] = RECT_H - d
         /\ OnBorder(geom.pos) => geom.at_edge = "True"
         /\ geom.pos = <<RECT_W \div 2, RECT_H \div 2>>
              => geom.at_edge = "False"

\* C32 witness: at_edge called on a position 11 pixels from the left border
\* and far from the others, and found false
C32_Witness ==
    /\ phase = "geometry"
    /\ geom.pos = <<EDGE_MARGIN + 1, RECT_H \div 2>>
    /\ geom.at_edge = "False"


-----------------------------------------------------------------------------
(* The Game as a whole. *)

\* C33 (as claimed): whenever KeyPadTest.stop is called while the Game
\* handles an event the test is active, so that no event in any reachable
\* state makes the assertion of stop fail.
C33_StopOnlyWhenActive ==
    /\ phase # "crashed"
    /\ Running
         => \A e \in Events :
              \A r \in Results(e) :
                ~r.raised /\ r.consumed # "AssertionError"


\* The hotspot of the view (window, door, light switch) answers the click
HotspotHit(e) ==
    \/ view \in {"LEFT_WALL", "RIGHT_WALL"} /\ e.hit
    \/ view = "FRONT_WALL" /\ door_collidepoint(Cur, e)

\* The view a click on the hotspot of the current view leads to
HotspotTarget ==
    CASE view = "LEFT_WALL" -> "LEFT_WINDOW"
      [] view = "FRONT_WALL" -> IF door_revealed THEN "FRONT_KEYPAD"
                                ELSE "FRONT_WALL"
      [] OTHER -> view

\* C34 (as claimed): a left click on the hotspot of LEFT_WALL, FRONT_WALL or
\* RIGHT_WALL is handled by the hotspot and not rotated, also at the screen
\* edge; a left click in a view other than DEFAULT that hits no hotspot and
\* is not at an edge is not consumed and changes nothing; a click with
\* another mouse button is never consumed.
C34_ClickPrecedence ==
    Running
      => \A e \in ClickEvents(view) :
           \A r \in Results(e) :
             /\ (LeftClick(e) /\ HotspotHit(e))
                  => r.consumed = "handle_click" /\ r.view = HotspotTarget
             /\ (LeftClick(e) /\ view # "DEFAULT" /\ ~HotspotHit(e)
                 /\ ~at_edge(e.pos))
                  => r = [Cur EXCEPT !.ret = r.ret]
             /\ ~LeftClick(e) => r.consumed = "none"


\* C35: after every fully handled event of the Game the KeyPadTest is
\* active only if the keypad is opened, and the keypad is opened only if the
\* view is FRONT_KEYPAD.
C35_ActiveOpenedKeypadView ==
    phase # "crashed"
      => /\ kt_active => keypad_opened(Cur)
         /\ keypad_opened(Cur) => view = "FRONT_KEYPAD"
         /\ Running
              => \A e \in Events :
                   \A r \in Results(e) :
                     ~r.raised
                       => /\ r.kt_active => keypad_opened(r)
                          /\ keypad_opened(r) => r.view = "FRONT_KEYPAD"

\* C35 witness: the test active on the opened keypad in the FRONT_KEYPAD
\* view, with a question asked
C35_Witness ==
    /\ Running
    /\ kt_active
    /\ keypad_opened(Cur)
    /\ view = "FRONT_KEYPAD"
    /\ question # NoQuestion


\* C36: the text displayed on the door equals the opening input of the
\* keypad in every reachable state: it follows every keystroke and backspace
\* that the keypad accepts, stays '9710' while the test overwrites the
\* visible text of the opened keypad, and is empty after the test stops.
C36_DoorShowsOpeningInput ==
    /\ door_text = kp_input
    /\ keypad_opened(Cur) => door_text = CODE
    /\ Running
         => \A e \in Events :
              \A r \in Results(e) :
                /\ r.door_text = r.kp_input
                /\ r.consumed = "handle_keypad_input"
                     => r.door_text = r.kp_text
                /\ (keypad_opened(Cur) /\ keypad_opened(r))
                     => r.door_text = CODE
                /\ (kt_active /\ ~r.kt_active /\ ~r.raised)
                     => r.door_text = EMPTY /\ r.kp_text = EMPTY

\* C36 witness: the test has overwritten the visible text of the opened
\* keypad with a question while the door shows '9710'
C36_Witness ==
    /\ Running
    /\ kt_active
    /\ question # NoQuestion
    /\ kp_text = Display(question)
    /\ door_text = CODE
    /\ kp_input = CODE


\* The current question is the special question
SpecialAsked == question # NoQuestion /\ question.value = SPECIAL_QUESTION

\* C37: in every run of the test the special question is issued at most once
\* and is the last question of the run: the counter of questions asked never
\* exceeds the special position plus one, the question at the special
\* position and no other is the special question, and once it is asked no
\* event generates another question until the test has been stopped.
C37_SpecialQuestionLast ==
    /\ asked <= special_pos + 1
    /\ question # NoQuestion
         => /\ question.id = asked - 1
            /\ question.id = special_pos <=> question.value = SPECIAL_QUESTION
    /\ asked = special_pos + 1 => SpecialAsked
    /\ Running
         => \A e \in Events :
              \A r \in Results(e) :
                (SpecialAsked /\ ~r.raised)
                  => \/ /\ r.question # NoQuestion
                        /\ r.question.id = question.id
                        /\ r.question.value = SPECIAL_QUESTION
                        /\ r.asked = asked
                        /\ r.special_pos = special_pos
                     \/ /\ r.question = NoQuestion
                        /\ r.asked = 0
                        /\ ~r.kt_active

\* C37 witness: the special question asked as the last question of a run
C37_Witness ==
    /\ Running
    /\ kt_active
    /\ SpecialAsked
    /\ question.state = "ACTIVE"
    /\ asked = special_pos + 1


\* C38: the revealed flag of the door is never reset by an event once it is
\* true, and the view is FRONT_KEYPAD, or the keypad opened (or holding any
\* typed digit), only if the door has been revealed.
C38_DoorRevealedMonotonic ==
    /\ (view = "FRONT_KEYPAD" \/ keypad_opened(Cur) \/ kp_input # EMPTY)
         => door_revealed
    /\ Running
         => \A e \in Events :
              \A r \in Results(e) :
                /\ door_revealed => r.door_revealed
                /\ (r.view = "FRONT_KEYPAD" \/ keypad_opened(r))
                     => r.door_revealed

\* C38 witness: back in the DEFAULT view with the door revealed earlier
C38_Witness ==
    /\ Running
    /\ view = "DEFAULT"
    /\ door_revealed
    /\ kp_input = EMPTY


\* C39: once the chest text is 'AYP' no event changes it: after every event,
\* keystrokes with backspace, clicks and F5 included, the chest text is still
\* 'AYP' and the chest is still opened.
C39_ChestStaysOpened ==
    (Running /\ chest_opened(Cur))
      => \A e \in Events :
           \A r \in Results(e) :
             /\ r.chest_text = AYP
             /\ chest_opened(r)

C39_Witness ==
    /\ Running
    /\ view = "FLOOR"
    /\ chest_opened(Cur)
    /\ \E e \in Events : e.type = "KEYDOWN" /\ IsBackspace(e)


-----------------------------------------------------------------------------
(* One call of KeyPadTest._generate_question, attempt by attempt.  A       *)
(* rejection is the tail call 'return self._generate_question()': a new    *)
(* attempt that starts from the same object state.  phase is "drawing"     *)
(* while attempts are made and "returned" once a question is returned;     *)
(* randint holds the draw of the last attempt.                             *)

\* an attempt after a rejection gets the rejected values again
AttemptDraws_repeating_rejected ==
    IF phase = "drawing" /\ Rejected(randint) THEN {randint} ELSE Draws

\* The values the three calls of random.randint can return in one attempt,
\* whatever the attempts before it drew
AttemptDraws == Draws

\* An attempt that ends in 'return self._generate_question()'
RedrawQuestion ==
    /\ phase = "drawing"
    /\ asked # special_pos
    /\ \E d \in { a \in AttemptDraws : Rejected(a) } :
         randint' = d
    /\ UNCHANGED <<phase, focus, active, view, wall_color, chest_text,
                   mini_chest_text, door_revealed, door_light, door_text,
                   light_on, mini_light_on, kp_text, kp_input, kp_color,
                   kt_active, question, special_pos, asked, timer,
                   ending_active, frame, geom>>

\* An attempt that returns a question, the special one without any draw;
\* the caller keeps it as _Question(value)
ReturnQuestion ==
    /\ phase = "drawing"
    /\ phase' = "returned"
    /\ \E d \in (IF asked = special_pos THEN {randint}
                 ELSE { a \in AttemptDraws : ~Rejected(a) }) :
         /\ randint' = d
         /\ question' =
              NewQuestion(asked, generate_question(asked, special_pos, d))
    /\ UNCHANGED <<focus, active, view, wall_color, chest_text,
                   mini_chest_text, door_revealed, door_light, door_text,
                   light_on, mini_light_on, kp_text, kp_input, kp_color,
                   kt_active, special_pos, asked, timer, ending_active,
                   frame, geom>>

\* _generate_question called on a KeyPadTest that asked any number of
\* questions up to the position of the special one
DrawInit ==
    /\ phase = "drawing"
    /\ focus = "keypad"
    /\ active = TRUE
    /\ view = "DEFAULT"
    /\ wall_color = "GREY"
    /\ chest_text = EMPTY
    /\ mini_chest_text = EMPTY
    /\ door_revealed = FALSE
    /\ door_light = TRUE
    /\ door_text = EMPTY
    /\ light_on = TRUE
    /\ mini_light_on = TRUE
    /\ kp_text = EMPTY
    /\ kp_input = EMPTY
    /\ kp_color = "BLACK"
    /\ kt_active = FALSE
    /\ question = NoQuestion
    /\ special_pos \in SpecialPositions
    /\ asked \in 0..special_pos
    /\ timer = 0
    /\ ending_active = FALSE
    /\ frame = 0
    /\ randint = NoRnd.draw
    /\ geom = NoGeom

DrawNext == RedrawQuestion \/ ReturnQuestion

\* random.randint is fair: an attempt whose values are accepted is possible
\* at every attempt, so it is eventually made
DrawSpec == DrawInit /\ [][DrawNext]_vars /\ WF_vars(ReturnQuestion)

====
